---- MODULE Spec2Model ----
(***************************************************************************)
(* Model of the in-process WebSocket fabric of gohtmx/irgo:                *)
(*   pkg/websocket session (src/unnamed/part_003),                         *)
(*   pkg/websocket hub     (src/unnamed/part_004),                         *)
(*   pkg/transport in-process channel (src/pkg/transport).                 *)
(* Goroutines are the elements of DOMAIN pc; every action is one atomic    *)
(* step of one goroutine: a critical section, one channel operation or one *)
(* callback invocation.                                                    *)
(***************************************************************************)
EXTENDS Integers, Sequences, FiniteSets, TLC

VARIABLES hub, session, pc, ret, obs, nenv, nmsg, panicked, transport, channel, now,
          http, ctx, stream

vars == <<hub, session, pc, ret, obs, nenv, nmsg, panicked, transport, channel, now,
          http, ctx, stream>>

(***************************************************************************)
(* Bounds of the model.                                                    *)
(***************************************************************************)
\* number of Session objects ever allocated
MaxSessions == 2
\* number of envelopes ever passed to Send
MaxEnvelopes == 3
\* number of inbound messages ever passed to HandleMessage
MaxMessages == 2
\* capacity of Session.SendChan: make(chan *Envelope, 100), scaled down
SendQueueCap == 2

(***************************************************************************)
(* Strings are sequences of characters, so that prefix, suffix and index   *)
(* are computed as package strings computes them.                          *)
(***************************************************************************)
HasPrefix(s, p) ==
    /\ Len(p) <= Len(s)
    /\ SubSeq(s, 1, Len(p)) = p

HasSuffix(s, x) ==
    /\ Len(x) <= Len(s)
    /\ SubSeq(s, Len(s) - Len(x) + 1, Len(s)) = x

\* strings.Index, 1-based; 0 stands for Go's -1
Index(s, x) ==
    LET hits == {i \in 1..Len(s) : i + Len(x) - 1 <= Len(s)
                                   /\ SubSeq(s, i, i + Len(x) - 1) = x}
    IN  IF hits = {} THEN 0 ELSE CHOOSE i \in hits : \A j \in hits : i <= j

Slash == <<"/">>
SchemeSep == <<":", "/", "/">>

extractPath(url) ==
    LET i    == Index(url, SchemeSep)
        rest == IF i /= 0 THEN SubSeq(url, i + 3, Len(url)) ELSE url
        j    == Index(rest, Slash)
    IN  IF j /= 0 THEN SubSeq(rest, j, Len(rest)) ELSE Slash

\* "/ws/"
P_ws == <<"/", "w", "s", "/">>
\* "/ws/chat"
U_chat == <<"/", "w", "s", "/", "c", "h", "a", "t">>
\* "/ws/room42"
U_room == <<"/", "w", "s", "/", "r", "o", "o", "m", "4", "2">>
\* "/api"
U_api == <<"/", "a", "p", "i">>
\* "ws://h/ws/chat"
U_full == <<"w", "s", ":", "/", "/", "h", "/", "w", "s", "/", "c", "h", "a", "t">>

\* "/"
P_root == <<"/">>

Patterns == {P_root, P_ws, U_chat}
Urls == {U_chat, U_room, U_api, U_full}

NoHandler == "nil"
Handlers == {"A", "B", "C"}

\* session ids: generated by the hub ("ws", counter) or supplied by the caller
NoId == <<"", 0>>
GenIds == {<<"ws", n>> : n \in 1..(MaxSessions + 1)}
GivenIds == {<<"sid", 0>>}
AllIds == GenIds \cup GivenIds

Threads2 == {"t1", "t2"}
Threads1 == {"t1"}

(***************************************************************************)
(* Inbound frames.  ParseRequest decodes JSON into a Request; a frame is    *)
(* abstracted to whether it decodes and the request_id it carries.         *)
(***************************************************************************)
Frames == {[valid |-> FALSE, request_id |-> ""],
           [valid |-> TRUE, request_id |-> ""],
           [valid |-> TRUE, request_id |-> "r1"]}
NoFrame == [valid |-> FALSE, request_id |-> "-"]

ParseRequest(data) ==
    IF data.valid THEN [err |-> FALSE, RequestID |-> data.request_id]
                  ELSE [err |-> TRUE, RequestID |-> ""]

(***************************************************************************)
(* Objects.                                                                *)
(***************************************************************************)
SessIdx == 1..MaxSessions

\* the request ids of the frames and of the replies
RequestIds == {"r1", "r2"}

\* Session.pending maps a request id to a pendingRequest: the request, named
\* by the number of the message that carried it, and time.Now() at tracking;
\* NoPending stands for an absent key
NoPending == [req |-> 0, at |-> 0]
NoPendingMap == [r \in RequestIds |-> NoPending]

\* Session.metadata: a map from keys to values; NoValue stands for an absent key
MetaKeys == {"user"}
MetaValues == {"a"}
NoValue == ""
NoMetadata == [k \in MetaKeys |-> NoValue]

\* Session.trackPending, lines 196-203
trackPending(pending, id, req, at) ==
    [pending EXCEPT ![id] = [req |-> req, at |-> at]]

\* Session.clearPending, lines 205-209
clearPending(pending, id) ==
    [pending EXCEPT ![id] = NoPending]

\* Session.GetPendingRequest, lines 212-219: the request, or nil (0)
GetPendingRequest(pending, id) ==
    IF pending[id] /= NoPending THEN pending[id].req ELSE 0

\* an unallocated heap cell
NoSession ==
    [alloc |-> FALSE, ID |-> NoId, URL |-> <<>>, Handler |-> NoHandler,
     closed |-> FALSE, SendChan |-> <<>>, chanClosed |-> FALSE, pending |-> NoPendingMap,
     metadata |-> NoMetadata]

NewSession(id, url, handler) ==
    [alloc |-> TRUE, ID |-> id, URL |-> url, Handler |-> handler,
     closed |-> FALSE, SendChan |-> <<>>, chanClosed |-> FALSE, pending |-> NoPendingMap,
     metadata |-> NoMetadata]

NewHub ==
    [sessions |-> [i \in AllIds |-> 0],
     handlers |-> [p \in Patterns |-> NoHandler],
     defaultHandler |-> NoHandler,
     counter |-> 0,
     sessionsMu |-> "",
     onSessionCreated |-> FALSE,
     onSessionDestroyed |-> FALSE]

\* the values Config.ChannelBufferSize is given: the default (the capacity of
\* SendChan) and the smaller ones set with WithChannelBufferSize
BufferSizes == 1..SendQueueCap

\* NewInProcessTransport: not running; handled counts the requests passed to
\* the adapter
NewInProcessTransport(size) ==
    [running |-> FALSE, ChannelBufferSize |-> size, handled |-> 0]

\* no InProcessChannel wraps the session
\* once and onceDone: closeOnce has been entered, and its function has
\* returned; done and incoming count the close() executed on each channel;
\* queue is what the incoming channel buffers, received what was read of it;
\* sessionClose counts the calls of session.Close() made by Close
NoChannel ==
    [alloc |-> FALSE, closed |-> FALSE, once |-> FALSE, onceDone |-> FALSE,
     done |-> 0, incoming |-> 0, sessionClose |-> 0, bufferSize |-> 0,
     queue |-> <<>>, received |-> <<>>]

\* newInProcessChannel: incoming has the configured capacity
newInProcessChannel(bufferSize) ==
    [alloc |-> TRUE, closed |-> FALSE, once |-> FALSE, onceDone |-> FALSE,
     done |-> 0, incoming |-> 0, sessionClose |-> 0,
     bufferSize |-> IF bufferSize <= 0 THEN SendQueueCap ELSE bufferSize,
     queue |-> <<>>, received |-> <<>>]

\* what has been observed of a session: callback invocations and traffic
NoObs ==
    [held |-> FALSE, OnConnect |-> 0, OnConnectOf |-> NoHandler, accepted |-> FALSE,
     OnClose |-> 0, OnCloseBy |-> {},
     OnMessage |-> 0, created |-> 0, destroyed |-> 0, chanClose |-> 0,
     closeReturned |-> FALSE, closeNoop |-> FALSE, okLog |-> <<>>, drained |-> <<>>,
     connectRet |-> "", replies |-> {}, answer |-> "", via |-> ""]

\* an envelope is identified by the goroutine that sends it and its call number
NoEnvelope == [by |-> "", n |-> 0]

\* the arguments of SendStream: a context that is not cancelled, and a
\* stream (<-chan *Message) that is open and holds no message
Background == [done |-> FALSE]
NoStream == [buf |-> <<>>, closed |-> FALSE]

\* a goroutine that is in no operation
Idle ==
    [op |-> "idle", step |-> "", s |-> 0, cs |-> 0, env |-> NoEnvelope, data |-> NoFrame,
     url |-> <<>>, id |-> NoId, h |-> NoHandler, snap |-> {}, cl |-> FALSE,
     req |-> 0, rid |-> "", ttl |-> 0]

NoRet ==
    [op |-> "", s |-> 0, val |-> "", cl |-> FALSE, env |-> NoEnvelope, url |-> <<>>,
     id |-> NoId, rid |-> "", data |-> NoFrame]

At(t, op, step) ==
    /\ ~panicked
    /\ pc[t].op = op
    /\ pc[t].step = step

AtStep(t, step) ==
    /\ ~panicked
    /\ pc[t].op /= "idle"
    /\ pc[t].step = step

IsIdle(t) ==
    /\ ~panicked
    /\ pc[t].op = "idle"

Return(t, val) ==
    /\ pc' = [pc EXCEPT ![t] = Idle]
    /\ ret' = [ret EXCEPT ![t] = [op |-> pc[t].op, s |-> pc[t].s, val |-> val,
                                  cl |-> pc[t].cl, env |-> pc[t].env, url |-> pc[t].url,
                                  id |-> pc[t].id, rid |-> pc[t].rid,
                                  data |-> pc[t].data]]

\* the end of a hub operation whose result is recorded with the session
Done(t) ==
    /\ pc' = [pc EXCEPT ![t] = Idle]
    /\ UNCHANGED ret

\* where Connect returns to: its caller, or OpenChannel (part_000, lines
\* 452-457), which hands an error on and wraps a session in a channel
AfterConnect(t, val) ==
    IF pc[t].op = "Transport.OpenChannel"
    THEN IF val = "session"
         THEN /\ pc' = [pc EXCEPT ![t].step = "OpenChannel.wrap"]
              /\ UNCHANGED ret
         ELSE Return(t, val)
    ELSE Done(t)

(***************************************************************************)
(* Session (src/unnamed/part_003).                                         *)
(***************************************************************************)
Panic(t) ==
    /\ panicked' = TRUE
    /\ pc' = [pc EXCEPT ![t].step = "panic"]

\* Session.Send, lines 85-90: the closed latch is read under the read lock,
\* and the lock is released before the channel operation
SessionSendCheck(t, s) ==
    /\ IsIdle(t)
    /\ session[s].alloc
    /\ obs[s].held
    /\ nenv < MaxEnvelopes
    /\ nenv' = nenv + 1
    /\ LET call == [Idle EXCEPT !.op = "Session.Send", !.step = "Send.select",
                                !.s = s, !.env = [by |-> t, n |-> nenv + 1],
                                !.cl = obs[s].closeReturned]
       IN  IF session[s].closed
           THEN /\ pc' = [pc EXCEPT ![t] = Idle]
                /\ ret' = [ret EXCEPT ![t] = [NoRet EXCEPT !.op = call.op, !.s = s,
                                                          !.val = "false", !.cl = call.cl,
                                                          !.env = call.env]]
           ELSE /\ pc' = [pc EXCEPT ![t] = call]
                /\ UNCHANGED ret
    /\ UNCHANGED <<hub, session, obs, nmsg, panicked, transport, channel, now, http, ctx, stream>>

SessionSendSelect_Prepend(t) ==
    /\ AtStep(t, "Send.select")
    /\ LET s == pc[t].s
       IN  IF session[s].chanClosed
           THEN /\ Panic(t)
                /\ UNCHANGED <<session, obs, ret>>
           ELSE IF Len(session[s].SendChan) < SendQueueCap
           THEN /\ session' = [session EXCEPT ![s].SendChan = <<pc[t].env>> \o @]
                /\ obs' = [obs EXCEPT ![s].okLog = Append(@, pc[t].env)]
                /\ Return(t, "true")
                /\ UNCHANGED panicked
           ELSE /\ Return(t, "false")
                /\ UNCHANGED <<session, obs, panicked>>
    /\ UNCHANGED <<hub, nenv, nmsg, transport, channel, now, http, ctx, stream>>

SessionSendSelect_DropOldest(t) ==
    /\ AtStep(t, "Send.select")
    /\ LET s == pc[t].s
       IN  IF session[s].chanClosed
           THEN /\ Panic(t)
                /\ UNCHANGED <<session, obs, ret>>
           ELSE /\ session' = [session EXCEPT ![s].SendChan =
                                  IF Len(@) < SendQueueCap THEN Append(@, pc[t].env)
                                  ELSE Append(Tail(@), pc[t].env)]
                /\ obs' = [obs EXCEPT ![s].okLog = Append(@, pc[t].env)]
                /\ Return(t, "true")
                /\ UNCHANGED panicked
    /\ UNCHANGED <<hub, nenv, nmsg, transport, channel, now, http, ctx, stream>>

\* Session.Send, lines 92-98: select { case s.SendChan <- envelope: ... default: ... }
\* A send on a closed channel panics, also inside a select with a default.
SessionSendSelect(t) ==
    /\ AtStep(t, "Send.select")
    /\ LET s == pc[t].s
       IN  IF session[s].chanClosed
           THEN /\ Panic(t)
                /\ UNCHANGED <<session, obs, ret>>
           ELSE IF Len(session[s].SendChan) < SendQueueCap
           THEN /\ session' = [session EXCEPT ![s].SendChan = Append(@, pc[t].env)]
                /\ obs' = [obs EXCEPT ![s].okLog = Append(@, pc[t].env)]
                /\ Return(t, "true")
                /\ UNCHANGED panicked
           ELSE /\ Return(t, "false")
                /\ UNCHANGED <<session, obs, panicked>>
    /\ UNCHANGED <<hub, nenv, nmsg, transport, channel, now, http, ctx, stream>>

\* the single reader of SendChan (the bridge): env := <-s.SendChan
Drain(s) ==
    /\ ~panicked
    /\ session[s].alloc
    /\ Len(session[s].SendChan) > 0
    /\ session' = [session EXCEPT ![s].SendChan = Tail(@)]
    /\ obs' = [obs EXCEPT ![s].drained = Append(@, Head(session[s].SendChan))]
    /\ UNCHANGED <<hub, pc, ret, nenv, nmsg, panicked, transport, channel, now, http, ctx, stream>>

\* a goroutine calls s.Close() on a session it holds (InProcessChannel.Close
\* does so inside closeOnce)
CallSessionClose(t, s) ==
    /\ IsIdle(t)
    /\ session[s].alloc
    /\ obs[s].held
    /\ pc' = [pc EXCEPT ![t] = [Idle EXCEPT !.op = "Session.Close",
                                            !.step = "Close.latch",
                                            !.s = s, !.cs = s]]
    /\ UNCHANGED <<hub, session, ret, obs, nenv, nmsg, panicked, transport, channel,
                   now, http, ctx, stream>>

\* where the caller of s.Close() goes on when it returns:
\* InProcessChannel.Close with close(c.done), ConnectWithID with the insertion,
\* Disconnect and Hub.Close with the destruction observer
AfterClose(t) ==
    IF pc[t].op = "Session.Close"
    THEN Done(t)
    ELSE /\ pc' = [pc EXCEPT ![t].step =
                      IF pc[t].op = "Channel.Close" THEN "Close.done"
                      ELSE IF pc[t].op = "Hub.ConnectWithID" THEN "ConnectWithID.insert"
                      ELSE "destroyed"]
         /\ UNCHANGED ret

\* Session.Close, lines 133-136: already closed, return
CloseDone(t) ==
    /\ obs' = [obs EXCEPT ![pc[t].cs].closeReturned = TRUE,
                          ![pc[t].cs].closeNoop = TRUE]
    /\ AfterClose(t)

SessionCloseLatch_NoLatch(t) ==
    /\ AtStep(t, "Close.latch")
    /\ LET s == pc[t].cs
       IN  IF session[s].closed
           THEN /\ CloseDone(t)
                /\ UNCHANGED session
           ELSE /\ pc' = [pc EXCEPT ![t].step = "Close.chan"]
                /\ UNCHANGED <<session, ret, obs>>
    /\ UNCHANGED <<hub, nenv, nmsg, panicked, transport, channel, now, http, ctx, stream>>

SessionCloseLatch_NoTest(t) ==
    /\ AtStep(t, "Close.latch")
    /\ session' = [session EXCEPT ![pc[t].cs].closed = TRUE]
    /\ pc' = [pc EXCEPT ![t].step = "Close.chan"]
    /\ UNCHANGED <<hub, ret, obs, nenv, nmsg, panicked, transport, channel, now, http, ctx, stream>>

\* Session.Close, lines 132-138: the latch is tested and set under the write lock
SessionCloseLatch(t) ==
    /\ AtStep(t, "Close.latch")
    /\ LET s == pc[t].cs
       IN  IF session[s].closed
           THEN /\ CloseDone(t)
                /\ UNCHANGED session
           ELSE /\ session' = [session EXCEPT ![s].closed = TRUE]
                /\ pc' = [pc EXCEPT ![t].step = "Close.chan"]
                /\ UNCHANGED <<ret, obs>>
    /\ UNCHANGED <<hub, nenv, nmsg, panicked, transport, channel, now, http, ctx, stream>>

\* Session.Close, line 140: close(s.SendChan); closing a closed channel panics
SessionCloseChan(t) ==
    /\ AtStep(t, "Close.chan")
    /\ LET s == pc[t].cs
       IN  IF session[s].chanClosed
           THEN /\ Panic(t)
                /\ obs' = [obs EXCEPT ![s].chanClose = @ + 1]
                /\ UNCHANGED session
           ELSE /\ session' = [session EXCEPT ![s].chanClosed = TRUE]
                /\ obs' = [obs EXCEPT ![s].chanClose = @ + 1]
                /\ pc' = [pc EXCEPT ![t].step = "Close.OnClose"]
                /\ UNCHANGED panicked
    /\ UNCHANGED <<hub, ret, nenv, nmsg, transport, channel, now, http, ctx, stream>>

\* Session.Close, lines 142-144: if s.Handler != nil { s.Handler.OnClose(s) }
SessionCloseOnClose(t) ==
    /\ AtStep(t, "Close.OnClose")
    /\ LET s == pc[t].cs
           o == IF session[s].Handler /= NoHandler
                THEN [obs EXCEPT ![s].OnClose = @ + 1,
                                 ![s].OnCloseBy = @ \cup {pc[t].op}]
                ELSE obs
       IN  /\ obs' = [o EXCEPT ![s].closeReturned = TRUE]
           /\ AfterClose(t)
    /\ UNCHANGED <<hub, session, nenv, nmsg, panicked, transport, channel, now, http, ctx, stream>>

SessionHandleMessage_NoTrack(t, s, data) ==
    /\ IsIdle(t)
    /\ session[s].alloc
    /\ obs[s].held
    /\ nmsg < MaxMessages
    /\ nmsg' = nmsg + 1
    /\ LET req  == ParseRequest(data)
           call == [Idle EXCEPT !.op = "Session.HandleMessage",
                                !.step = "HandleMessage.OnMessage",
                                !.s = s, !.data = data, !.cl = session[s].closed,
                                !.req = nmsg + 1]
       IN  IF req.err
           THEN /\ pc' = [pc EXCEPT ![t] = Idle]
                /\ ret' = [ret EXCEPT ![t] = [NoRet EXCEPT !.op = call.op, !.s = s,
                                                          !.val = "ErrParse", !.cl = call.cl,
                                                          !.data = data]]
                /\ UNCHANGED session
           ELSE /\ UNCHANGED session
                /\ IF session[s].Handler /= NoHandler
                   THEN /\ pc' = [pc EXCEPT ![t] = call]
                        /\ UNCHANGED ret
                   ELSE /\ pc' = [pc EXCEPT ![t] = Idle]
                        /\ ret' = [ret EXCEPT ![t] = [NoRet EXCEPT !.op = call.op, !.s = s,
                                                                  !.val = "nil",
                                                                  !.cl = call.cl,
                                                                  !.data = data]]
    /\ UNCHANGED <<hub, obs, nenv, panicked, transport, channel, now, http, ctx, stream>>

\* Session.HandleMessage, lines 114-122: parse, then track the pending request
SessionHandleMessage(t, s, data) ==
    /\ IsIdle(t)
    /\ session[s].alloc
    /\ obs[s].held
    /\ nmsg < MaxMessages
    /\ nmsg' = nmsg + 1
    /\ LET req  == ParseRequest(data)
           call == [Idle EXCEPT !.op = "Session.HandleMessage",
                                !.step = "HandleMessage.OnMessage",
                                !.s = s, !.data = data, !.cl = session[s].closed,
                                !.req = nmsg + 1]
       IN  IF req.err
           THEN /\ pc' = [pc EXCEPT ![t] = Idle]
                /\ ret' = [ret EXCEPT ![t] = [NoRet EXCEPT !.op = call.op, !.s = s,
                                                          !.val = "ErrParse", !.cl = call.cl,
                                                          !.data = data]]
                /\ UNCHANGED session
           ELSE /\ session' = IF req.RequestID /= ""
                              THEN [session EXCEPT ![s].pending =
                                      trackPending(@, req.RequestID, nmsg + 1, now)]
                              ELSE session
                /\ IF session[s].Handler /= NoHandler
                   THEN /\ pc' = [pc EXCEPT ![t] = call]
                        /\ UNCHANGED ret
                   ELSE /\ pc' = [pc EXCEPT ![t] = Idle]
                        /\ ret' = [ret EXCEPT ![t] = [NoRet EXCEPT !.op = call.op, !.s = s,
                                                                  !.val = "nil",
                                                                  !.cl = call.cl,
                                                                  !.data = data]]
    /\ UNCHANGED <<hub, obs, nenv, panicked, transport, channel, now, http, ctx, stream>>

\* what a handler's OnMessage may answer: no envelope, an envelope, an error
OnMessageResults == {"nil", "envelope", "ErrHandler"}

SessionOnMessage_CloseOnError(t, r) ==
    /\ AtStep(t, "HandleMessage.OnMessage")
    /\ r \in OnMessageResults
    /\ obs' = [obs EXCEPT ![pc[t].s].OnMessage = @ + 1, ![pc[t].s].answer = r]
    /\ session' = IF r = "ErrHandler" THEN [session EXCEPT ![pc[t].s].closed = TRUE]
                  ELSE session
    /\ Return(t, r)
    /\ UNCHANGED <<hub, nenv, nmsg, panicked, transport, channel, now, http, ctx, stream>>

\* Session.HandleMessage, lines 124-126: return s.Handler.OnMessage(s, req)
SessionOnMessage(t, r) ==
    /\ AtStep(t, "HandleMessage.OnMessage")
    /\ r \in OnMessageResults
    /\ obs' = [obs EXCEPT ![pc[t].s].OnMessage = @ + 1, ![pc[t].s].answer = r]
    /\ Return(t, r)
    /\ UNCHANGED <<hub, session, nenv, nmsg, panicked, transport, channel, now, http, ctx, stream>>

(***************************************************************************)
(* Pending requests and metadata of a session (src/unnamed/part_003,       *)
(* lines 107-110 and 154-232).  Time is the reading of time.Now().          *)
(***************************************************************************)
\* the largest reading of the clock
MaxTime == 2

\* the ttl values CleanupExpiredPending is called with
Ttls == 0..MaxTime

\* frames that carry either request id
PendingFrames == {[valid |-> TRUE, request_id |-> r] : r \in RequestIds}

\* time passes
Tick ==
    /\ ~panicked
    /\ now < MaxTime
    /\ now' = now + 1
    /\ UNCHANGED <<hub, session, pc, ret, obs, nenv, nmsg, panicked, transport, channel,
                   http, ctx, stream>>

SessionReply_NoClear(t, s, r) ==
    /\ IsIdle(t)
    /\ session[s].alloc
    /\ obs[s].held
    /\ nenv < MaxEnvelopes
    /\ nenv' = nenv + 1
    /\ obs' = [obs EXCEPT ![s].replies =
                  @ \cup {[env |-> [by |-> t, n |-> nenv + 1], rid |-> r,
                           entry |-> session[s].pending[r]]}]
    /\ pc' = [pc EXCEPT ![t] = [Idle EXCEPT !.op = "Session.Reply", !.step = "Reply.Send",
                                            !.s = s, !.rid = r,
                                            !.env = [by |-> t, n |-> nenv + 1]]]
    /\ UNCHANGED <<hub, session, ret, nmsg, panicked, transport, channel, now, http, ctx, stream>>

\* Session.Reply, line 108: s.clearPending(requestID); obs.replies records
\* the reply envelope, the id and the entry that was pending at the call
SessionReply(t, s, r) ==
    /\ IsIdle(t)
    /\ session[s].alloc
    /\ obs[s].held
    /\ nenv < MaxEnvelopes
    /\ nenv' = nenv + 1
    /\ session' = [session EXCEPT ![s].pending = clearPending(@, r)]
    /\ obs' = [obs EXCEPT ![s].replies =
                  @ \cup {[env |-> [by |-> t, n |-> nenv + 1], rid |-> r,
                           entry |-> session[s].pending[r]]}]
    /\ pc' = [pc EXCEPT ![t] = [Idle EXCEPT !.op = "Session.Reply", !.step = "Reply.Send",
                                            !.s = s, !.rid = r,
                                            !.env = [by |-> t, n |-> nenv + 1]]]
    /\ UNCHANGED <<hub, ret, nmsg, panicked, transport, channel, now, http, ctx, stream>>

\* Session.Reply, line 109: return s.Send(ReplyEnvelope(requestID, html)),
\* that is Session.Send lines 85-90; the select follows
SessionReplySend(t) ==
    /\ At(t, "Session.Reply", "Reply.Send")
    /\ IF session[pc[t].s].closed
       THEN Return(t, "false")
       ELSE /\ pc' = [pc EXCEPT ![t].step = "Send.select"]
            /\ UNCHANGED ret
    /\ UNCHANGED <<hub, session, obs, nenv, nmsg, panicked, transport, channel,
                   now, http, ctx, stream>>

\* Session.GetPendingRequest, lines 212-219
SessionGetPendingRequest(t, s, r) ==
    /\ IsIdle(t)
    /\ session[s].alloc
    /\ obs[s].held
    /\ ret' = [ret EXCEPT ![t] = [NoRet EXCEPT !.op = "Session.GetPendingRequest",
                                              !.s = s, !.rid = r,
                                              !.val = GetPendingRequest(session[s].pending, r)]]
    /\ UNCHANGED <<hub, session, pc, obs, nenv, nmsg, panicked, transport, channel,
                   now, http, ctx, stream>>

\* Session.CleanupExpiredPending is called; pendingMu is taken next
SessionCleanupExpiredPending(t, s, ttl) ==
    /\ IsIdle(t)
    /\ session[s].alloc
    /\ obs[s].held
    /\ pc' = [pc EXCEPT ![t] = [Idle EXCEPT !.op = "Session.CleanupExpiredPending",
                                            !.step = "Cleanup.lock", !.s = s, !.ttl = ttl]]
    /\ UNCHANGED <<hub, session, ret, obs, nenv, nmsg, panicked, transport, channel,
                   now, http, ctx, stream>>

CleanupExpiredPending_AtLeast(pending, ttl, at) ==
    [r \in RequestIds |->
        IF pending[r] /= NoPending /\ at - pending[r].at >= ttl THEN NoPending
                                                                ELSE pending[r]]

\* Session.CleanupExpiredPending, lines 226-231: every entry with
\* now.Sub(p.Timestamp) > ttl is deleted
CleanupExpiredPending(pending, ttl, at) ==
    [r \in RequestIds |->
        IF pending[r] /= NoPending /\ at - pending[r].at > ttl THEN NoPending
                                                               ELSE pending[r]]

\* Session.CleanupExpiredPending, lines 223-232, under pendingMu
SessionCleanupLocked(t) ==
    /\ At(t, "Session.CleanupExpiredPending", "Cleanup.lock")
    /\ session' = [session EXCEPT ![pc[t].s].pending =
                      CleanupExpiredPending(@, pc[t].ttl, now)]
    /\ Done(t)
    /\ UNCHANGED <<hub, obs, nenv, nmsg, panicked, transport, channel, now, http, ctx, stream>>

\* Session.Set, lines 155-159
SessionSet(t, s, k, v) ==
    /\ IsIdle(t)
    /\ session[s].alloc
    /\ obs[s].held
    /\ session' = [session EXCEPT ![s].metadata[k] = v]
    /\ UNCHANGED <<hub, pc, ret, obs, nenv, nmsg, panicked, transport, channel,
                   now, http, ctx, stream>>

(***************************************************************************)
(* HTTP security middleware (src/pkg/router/security.go) and the           *)
(* middleware stack of the security document (src/unnamed/part_008).       *)
(* A request carries its method, its URL path, the values of its           *)
(* X-Irgo-Secret and Origin header fields (a field may be absent, or       *)
(* present with several values), the values of its Upgrade and Connection  *)
(* fields, and the values of the secret query parameter. A middleware is   *)
(* an operator from the                                                    *)
(* request and the inner handler's response to its own response.           *)
(***************************************************************************)
\* two secrets as GenerateSecret produces them: never empty; K1 is a prefix of K2
K1 == <<"k">>
K2 == <<"k", "2">>

\* "/static/"
P_static == <<"/", "s", "t", "a", "t", "i", "c", "/">>
\* "/static/a"
U_asset == <<"/", "s", "t", "a", "t", "i", "c", "/", "a">>
\* "/static"
U_static == <<"/", "s", "t", "a", "t", "i", "c">>
\* "/api/data"
U_data == <<"/", "a", "p", "i", "/", "d", "a", "t", "a">>

\* origins: the application's, and two look-alikes that have the
\* application's origin as prefix and as suffix
O_app == <<"h", ":", "a">>
O_longer == O_app \o <<".", "e">>
O_ending == <<"e", ".">> \o O_app

\* "websocket" and "upgrade", as isWebSocketUpgrade spells them, and values
\* of the Upgrade and Connection fields as clients send them
S_websocket == <<"w", "e", "b", "s", "o", "c", "k", "e", "t">>
S_upgrade == <<"u", "p", "g", "r", "a", "d", "e">>
\* "WebSocket"
S_WebSocket == <<"W", "e", "b", "S", "o", "c", "k", "e", "t">>
\* "websockets"
S_websockets == S_websocket \o <<"s">>
\* "Upgrade"
S_Upgrade == <<"U", "p", "g", "r", "a", "d", "e">>
\* "keep-alive, Upgrade", shortened to "k, Upgrade"
S_keepUpgrade == <<"k", ",", " ">> \o S_Upgrade
\* "close"
S_close == <<"c", "l", "o", "s", "e">>

\* XIrgoSecret, Origin, Upgrade and Connection hold the values of the header
\* field, secret those of the query parameter: absent, one value (for Origin
\* also the empty one), two values
Requests ==
    [Method : {"GET", "HEAD", "OPTIONS", "POST", "get"},
     Path : {U_asset, U_static, U_data},
     XIrgoSecret : {<<>>, <<K1>>, <<K2>>, <<K2, K1>>},
     Origin : {<<>>, << <<>> >>, <<O_app>>, <<O_longer>>, <<O_ending>>},
     Upgrade : {<<>>, <<S_websocket>>, <<S_WebSocket>>, <<S_websockets>>},
     Connection : {<<>>, <<S_Upgrade>>, <<S_keepUpgrade>>, <<S_close>>},
     secret : {<<>>, <<K1>>, <<K2>>, <<K2, K1>>}]

\* http.Header.Get: the first value of the field, "" when the field is absent
HeaderGet(field) == IF field = <<>> THEN <<>> ELSE field[1]

\* the application's handler at the bottom of a chain
AppHandler == [status |-> 200, body |-> "", next |-> TRUE]
\* http.Error(w, msg, http.StatusForbidden)
Forbidden(msg) == [status |-> 403, body |-> msg, next |-> FALSE]

SafeMethod(r) == r.Method = "GET" \/ r.Method = "HEAD" \/ r.Method = "OPTIONS"

SecretValidationMiddleware_NoExclude(secret, excludePaths, r, next) ==
    IF SafeMethod(r) THEN next
    ELSE IF HeaderGet(r.XIrgoSecret) /= secret THEN Forbidden("Forbidden")
    ELSE next

\* SecretValidationMiddleware, security.go lines 17-45
SecretValidationMiddleware(secret, excludePaths, r, next) ==
    IF SafeMethod(r) THEN next
    ELSE IF \E i \in DOMAIN excludePaths : HasPrefix(r.Path, excludePaths[i]) THEN next
    ELSE IF HeaderGet(r.XIrgoSecret) /= secret THEN Forbidden("Forbidden")
    ELSE next

StrictOriginMiddleware_Prefix(allowedOrigins, r, next) ==
    LET origin == HeaderGet(r.Origin)
    IN  IF SafeMethod(r) THEN next
        ELSE IF origin = <<>> THEN next
        ELSE IF ~ \E i \in DOMAIN allowedOrigins : HasPrefix(origin, allowedOrigins[i])
             THEN Forbidden("Forbidden: invalid origin")
        ELSE next

\* StrictOriginMiddleware, security.go lines 51-85
StrictOriginMiddleware(allowedOrigins, r, next) ==
    LET originSet == {allowedOrigins[i] : i \in DOMAIN allowedOrigins}
        origin    == HeaderGet(r.Origin)
    IN  IF SafeMethod(r) THEN next
        ELSE IF origin = <<>> THEN next
        ELSE IF origin \notin originSet THEN Forbidden("Forbidden: invalid origin")
        ELSE next

\* strings.ToLower on the letters the model uses
ToLower(s) ==
    LET upper == <<"A", "C", "D", "E", "G", "K", "O", "P", "R", "S", "T", "U", "W">>
        lower == <<"a", "c", "d", "e", "g", "k", "o", "p", "r", "s", "t", "u", "w">>
    IN  [i \in DOMAIN s |->
            IF \E j \in DOMAIN upper : upper[j] = s[i]
            THEN lower[CHOOSE j \in DOMAIN upper : upper[j] = s[i]]
            ELSE s[i]]

\* strings.EqualFold: equality under case folding
EqualFold(s, t) == ToLower(s) = ToLower(t)

\* strings.Contains
Contains(s, x) == x = <<>> \/ Index(s, x) /= 0

isWebSocketUpgrade_CaseSensitive(r) ==
    /\ HeaderGet(r.Upgrade) = S_websocket
    /\ Contains(HeaderGet(r.Connection), S_upgrade)

\* isWebSocketUpgrade, security.go lines 112-115
isWebSocketUpgrade(r) ==
    /\ EqualFold(HeaderGet(r.Upgrade), S_websocket)
    /\ Contains(ToLower(HeaderGet(r.Connection)), S_upgrade)

WebSocketSecretMiddleware_HeaderSecret(secret, r, next) ==
    IF ~ isWebSocketUpgrade(r) THEN next
    ELSE IF HeaderGet(r.XIrgoSecret) /= secret THEN Forbidden("Forbidden")
    ELSE next

\* WebSocketSecretMiddleware, security.go lines 90-109; url.Values.Get is,
\* like Header.Get, the first value of the parameter, "" when it is absent
WebSocketSecretMiddleware(secret, r, next) ==
    IF ~ isWebSocketUpgrade(r) THEN next
    ELSE IF HeaderGet(r.secret) /= secret THEN Forbidden("Forbidden")
    ELSE next

\* CORSMiddleware, middleware.go lines 102-130: the response headers it sets
\* are not modelled; a preflight is answered with 204
CORSMiddleware(allowedOrigins, r, next) ==
    IF r.Method = "OPTIONS" THEN [status |-> 204, body |-> "", next |-> FALSE] ELSE next

SecurityStack_NoOrigin(secret, allowedOrigins, r) ==
    LET h1 == CORSMiddleware(allowedOrigins, r, AppHandler)
        h3 == SecretValidationMiddleware(secret, <<P_static>>, r, h1)
    IN  WebSocketSecretMiddleware(secret, r, h3)

\* the same four layers in the order the document's prose gives them
\* ("outermost first"): CORSMiddleware is the first to see a request
SecurityStackListed(secret, allowedOrigins, r) ==
    LET h4 == WebSocketSecretMiddleware(secret, r, AppHandler)
        h3 == SecretValidationMiddleware(secret, <<P_static>>, r, h4)
        h2 == StrictOriginMiddleware(allowedOrigins, r, h3)
    IN  CORSMiddleware(allowedOrigins, r, h2)

\* the stack of the security document, part_008 lines 95-111: each line wraps
\* the handler built so far, so the last one is the first to see a request
SecurityStack(secret, allowedOrigins, r) ==
    LET h1 == CORSMiddleware(allowedOrigins, r, AppHandler)
        h2 == StrictOriginMiddleware(allowedOrigins, r, h1)
        h3 == SecretValidationMiddleware(secret, <<P_static>>, r, h2)
    IN  WebSocketSecretMiddleware(secret, r, h3)

\* the configuration of the middleware, no request served yet
NoHttp ==
    [secret |-> K1, excludePaths |-> <<>>, allowedOrigins |-> <<>>, mw |-> "",
     r |-> [Method |-> "", Path |-> <<>>, XIrgoSecret |-> <<>>, Origin |-> <<>>,
            Upgrade |-> <<>>, Connection |-> <<>>, secret |-> <<>>],
     resp |-> [status |-> 0, body |-> "", next |-> FALSE]]

\* one request served by SecretValidationMiddleware(secret, excludePaths)(app)
ServeSecretValidation(r) ==
    /\ http' = [http EXCEPT !.mw = "SecretValidationMiddleware", !.r = r,
                            !.resp = SecretValidationMiddleware(http.secret,
                                         http.excludePaths, r, AppHandler)]
    /\ UNCHANGED <<hub, session, pc, ret, obs, nenv, nmsg, panicked, transport, channel,
                   now, ctx, stream>>

\* one request served by StrictOriginMiddleware(allowedOrigins...)(app)
ServeStrictOrigin(r) ==
    /\ http' = [http EXCEPT !.mw = "StrictOriginMiddleware", !.r = r,
                            !.resp = StrictOriginMiddleware(http.allowedOrigins,
                                         r, AppHandler)]
    /\ UNCHANGED <<hub, session, pc, ret, obs, nenv, nmsg, panicked, transport, channel,
                   now, ctx, stream>>

\* one request served by WebSocketSecretMiddleware(secret)(app)
ServeWebSocketSecret(r) ==
    /\ http' = [http EXCEPT !.mw = "WebSocketSecretMiddleware", !.r = r,
                            !.resp = WebSocketSecretMiddleware(http.secret, r,
                                         AppHandler)]
    /\ UNCHANGED <<hub, session, pc, ret, obs, nenv, nmsg, panicked, transport, channel,
                   now, ctx, stream>>

\* one request served by the whole stack, nested as the document's code
\* nests it or as its prose lists it
ServeStack(r) ==
    /\ \E resp \in {SecurityStack(http.secret, http.allowedOrigins, r),
                     SecurityStackListed(http.secret, http.allowedOrigins, r)} :
           http' = [http EXCEPT !.mw = "SecurityStack", !.r = r, !.resp = resp]
    /\ UNCHANGED <<hub, session, pc, ret, obs, nenv, nmsg, panicked, transport, channel,
                   now, ctx, stream>>

\* the middleware built with a secret, exclude prefixes and allowed origins
InitSecurity ==
    /\ hub = NewHub
    /\ session = [i \in SessIdx |-> NoSession]
    /\ pc = [t \in Threads2 |-> Idle]
    /\ ret = [t \in Threads2 |-> NoRet]
    /\ obs = [i \in SessIdx |-> NoObs]
    /\ nenv = 0
    /\ nmsg = 0
    /\ panicked = FALSE
    /\ transport = NewInProcessTransport(SendQueueCap)
    /\ channel = [i \in SessIdx |-> NoChannel]
    /\ now = 0
    /\ \E k \in {K1, K2}, x \in {<<P_static>>, <<U_data, P_static>>},
          o \in {<<O_app>>, <<O_ending, O_app>>} :
           http = [NoHttp EXCEPT !.secret = k, !.excludePaths = x, !.allowedOrigins = o]
    /\ ctx = Background
    /\ stream = NoStream

\* the requests sent to each handler: the fields a middleware never reads
\* are held fixed in the requests sent to it alone
NotUpgrade(q) == q.Upgrade = <<>> /\ q.Connection = <<>> /\ q.secret = <<>>
SecretRequests == {q \in Requests : q.Origin = <<>> /\ NotUpgrade(q)}
OriginRequests ==
    {q \in Requests : q.Path = U_data /\ q.XIrgoSecret = <<>> /\ NotUpgrade(q)}
UpgradeRequests ==
    {q \in Requests : /\ q.Method = "GET"
                      /\ q.Path = U_data
                      /\ q.XIrgoSecret \in {<<>>, <<K1>>}
                      /\ q.Origin = <<>>
                      /\ q.secret /= <<K2>>}
StackRequests ==
    {q \in Requests : /\ q.Method \in {"GET", "POST", "OPTIONS"}
                      /\ q.Path \in {U_data, U_asset}
                      /\ q.XIrgoSecret \in {<<>>, <<K1>>}
                      /\ q.Origin \in {<<>>, << <<>> >>, <<O_app>>, <<O_longer>>}
                      /\ \/ NotUpgrade(q)
                         \/ /\ q.Upgrade = <<S_WebSocket>>
                            /\ q.Connection = <<S_keepUpgrade>>
                            /\ q.secret \in {<<>>, <<K1>>}}

NextSecurity ==
    \/ \E r \in SecretRequests : ServeSecretValidation(r)
    \/ \E r \in OriginRequests : ServeStrictOrigin(r)
    \/ \E r \in UpgradeRequests : ServeWebSocketSecret(r)
    \/ \E r \in StackRequests : ServeStack(r)

SpecSecurity == InitSecurity /\ [][NextSecurity]_vars

(***************************************************************************)
(* One session, created with NewSession and shared by two goroutines.      *)
(***************************************************************************)
InitSession ==
    /\ hub = NewHub
    /\ session = [i \in SessIdx |-> IF i = 1 THEN NewSession(<<"sid", 0>>, U_chat, "A")
                                            ELSE NoSession]
    /\ pc = [t \in Threads2 |-> Idle]
    /\ ret = [t \in Threads2 |-> NoRet]
    /\ obs = [i \in SessIdx |-> IF i = 1 THEN [NoObs EXCEPT !.held = TRUE] ELSE NoObs]
    /\ nenv = 0
    /\ nmsg = 0
    /\ panicked = FALSE
    /\ transport = NewInProcessTransport(SendQueueCap)
    /\ channel = [i \in SessIdx |-> NoChannel]
    /\ now = 0
    /\ http = NoHttp
    /\ ctx = Background
    /\ stream = NoStream

NextSession ==
    \/ \E t \in DOMAIN pc, s \in SessIdx : SessionSendCheck(t, s)
    \/ \E t \in DOMAIN pc : SessionSendSelect(t)
    \/ \E s \in SessIdx : Drain(s)
    \/ \E t \in DOMAIN pc, s \in SessIdx : CallSessionClose(t, s)
    \/ \E t \in DOMAIN pc : SessionCloseLatch(t)
    \/ \E t \in DOMAIN pc : SessionCloseChan(t)
    \/ \E t \in DOMAIN pc : SessionCloseOnClose(t)

SpecSession == InitSession /\ [][NextSession]_vars

(***************************************************************************)
(* The same session, with inbound messages racing with Close.              *)
(***************************************************************************)
NextMessage ==
    \/ \E t \in DOMAIN pc, s \in SessIdx, d \in Frames : SessionHandleMessage(t, s, d)
    \/ \E t \in DOMAIN pc, r \in OnMessageResults : SessionOnMessage(t, r)
    \/ \E t \in DOMAIN pc, s \in SessIdx : CallSessionClose(t, s)
    \/ \E t \in DOMAIN pc : SessionCloseLatch(t)
    \/ \E t \in DOMAIN pc : SessionCloseChan(t)
    \/ \E t \in DOMAIN pc : SessionCloseOnClose(t)

SpecMessage == InitSession /\ [][NextMessage]_vars

(***************************************************************************)
(* The same session: requests tracked and replied to.                      *)
(***************************************************************************)
\* frames that carry a request id
TrackedFrames == {d \in Frames : d.valid /\ d.request_id /= ""}

NextReply ==
    \/ \E t \in DOMAIN pc, s \in SessIdx, d \in TrackedFrames : SessionHandleMessage(t, s, d)
    \/ \E t \in DOMAIN pc : SessionOnMessage(t, "nil")
    \/ \E t \in DOMAIN pc, s \in SessIdx, r \in RequestIds : SessionReply(t, s, r)
    \/ \E t \in DOMAIN pc : SessionReplySend(t)
    \/ \E t \in DOMAIN pc : SessionSendSelect(t)

SpecReply == InitSession /\ [][NextReply]_vars

\* requests tracked at different times, looked up and expired
NextCleanup ==
    \/ \E t \in DOMAIN pc, s \in SessIdx, d \in PendingFrames : SessionHandleMessage(t, s, d)
    \/ \E t \in DOMAIN pc : SessionOnMessage(t, "nil")
    \/ \E t \in DOMAIN pc, s \in SessIdx, r \in RequestIds : SessionGetPendingRequest(t, s, r)
    \/ \E t \in DOMAIN pc, s \in SessIdx, ttl \in Ttls : SessionCleanupExpiredPending(t, s, ttl)
    \/ \E t \in DOMAIN pc : SessionCleanupLocked(t)
    \/ \E t \in DOMAIN pc, s \in SessIdx, k \in MetaKeys, v \in MetaValues : SessionSet(t, s, k, v)
    \/ Tick

SpecCleanup == InitSession /\ [][NextCleanup]_vars

(***************************************************************************)
(* Session properties.                                                     *)
(***************************************************************************)
Range(q) == {q[i] : i \in DOMAIN q}

InClose(t, s) ==
    /\ pc[t].cs = s
    /\ pc[t].step \in {"Close.latch", "Close.chan", "Close.OnClose"}

\* goroutine t calls s.Send in this step
SendCalled(t, s) ==
    /\ nenv' = nenv + 1
    /\ \/ pc'[t].op = "Session.Send" /\ pc'[t].s = s /\ pc'[t].env.n = nenv'
       \/ ret'[t].op = "Session.Send" /\ ret'[t].s = s /\ ret'[t].env.n = nenv'

\* C1: once some s.Close() has returned, every s.Send called afterwards
\* returns false at once and leaves SendChan as it was, and the closed latch
\* of a session never goes back from closed to open.
C1_SendAfterCloseRefused ==
    [][/\ \A s \in SessIdx : session[s].closed => session'[s].closed
       /\ \A t \in DOMAIN pc, s \in SessIdx :
             (SendCalled(t, s) /\ obs[s].closeReturned)
                => /\ pc'[t].op = "idle"
                   /\ ret'[t].val = "false"
                   /\ session'[s].SendChan = session[s].SendChan]_vars

C1_Witness ==
    \E t \in DOMAIN pc :
        /\ ret[t].op = "Session.Send"
        /\ ret[t].cl
        /\ ret[t].val = "false"
        /\ session[ret[t].s].closed

\* C2: what the single reader of SendChan has received, followed by what is
\* still queued, is exactly the sequence of envelopes whose Send returned
\* true, in the order in which they were accepted; envelopes of one goroutine
\* come out in the order of its calls; a refused envelope never comes out.
C2_SendOrderPreserved ==
    \A s \in SessIdx :
        LET out == obs[s].drained \o session[s].SendChan
        IN  /\ out = obs[s].okLog
            /\ \A i, j \in DOMAIN out :
                  (i < j /\ out[i].by = out[j].by) => out[i].n < out[j].n
            /\ \A i, j \in DOMAIN out : i /= j => out[i] /= out[j]
            /\ \A t \in DOMAIN pc :
                  (ret[t].op = "Session.Send" /\ ret[t].s = s)
                     => (ret[t].val = "true" <=> ret[t].env \in Range(out))

C2_Witness ==
    \E s \in SessIdx :
        /\ Len(obs[s].drained) >= 2
        /\ ~session[s].closed
        /\ \E t \in DOMAIN pc :
              ret[t].op = "Session.Send" /\ ret[t].s = s /\ ret[t].val = "false"

\* C3: however many goroutines call s.Close(), OnClose is invoked at most
\* once and SendChan is closed at most once, and as soon as a Close has
\* returned and none is still running both have happened exactly once.
C3_CloseOnce ==
    \A s \in SessIdx :
        /\ obs[s].OnClose <= 1
        /\ obs[s].chanClose <= 1
        /\ (obs[s].closeReturned /\ \A t \in DOMAIN pc : ~InClose(t, s))
              => (obs[s].OnClose = 1 /\ obs[s].chanClose = 1)

C3_Witness ==
    \E s \in SessIdx :
        /\ obs[s].closeNoop
        /\ \A t \in DOMAIN pc : pc[t].op = "idle"
        /\ obs[s].OnClose = 1

\* C4: a Send that reaches a full SendChan of an open session returns false
\* in that very step (the select is always enabled, so it never blocks), and
\* the queue keeps exactly the envelopes it held; the queue never holds more
\* than its capacity.
C4_FullQueueDropsNewest ==
    [][\A t \in DOMAIN pc :
          LET s == pc[t].s
          IN  /\ (pc[t].step = "Send.select" /\ ~panicked)
                    => ENABLED SessionSendSelect(t)
              /\ pc[t].step = "Send.select" => Len(session[s].SendChan) <= SendQueueCap
              /\ (/\ pc[t].step = "Send.select"
                  /\ pc'[t] /= pc[t]
                  /\ ~session[s].chanClosed
                  /\ Len(session[s].SendChan) = SendQueueCap)
                    => /\ pc'[t].op = "idle"
                       /\ ret'[t].val = "false"
                       /\ ret'[t].env = pc[t].env
                       /\ session' = session]_vars

C4_Witness ==
    \E t \in DOMAIN pc :
        /\ ret[t].op = "Session.Send"
        /\ ret[t].val = "false"
        /\ ~session[ret[t].s].closed
        /\ Len(session[ret[t].s].SendChan) = SendQueueCap

\* C5: no Send ever performs its channel send on a SendChan that Close has
\* already closed, that is, no goroutine panics inside Session.Send.
C5_SendNeverPanics ==
    \A t \in DOMAIN pc : ~(pc[t].op = "Session.Send" /\ pc[t].step = "panic")

\* C6: a HandleMessage called on a closed session does not get as far as
\* tracking the request or invoking OnMessage, and for a frame that parses it
\* answers with the closed-session error.
C6_ClosedSessionRejectsMessage ==
    \A t \in DOMAIN pc :
        /\ pc[t].op = "Session.HandleMessage" => ~pc[t].cl
        /\ (ret[t].op = "Session.HandleMessage" /\ ret[t].cl)
              => ret[t].val \in {"ErrSessionClosed", "ErrParse"}

(***************************************************************************)
(* Hub (src/unnamed/part_004).                                             *)
(***************************************************************************)
Registered(hs, p) == p \in DOMAIN hs /\ hs[p] /= NoHandler

\* the patterns the loop "for pattern, handler := range h.handlers" can stop at
PrefixMatches(hs, u) ==
    {p \in DOMAIN hs : Registered(hs, p) /\ HasSuffix(p, Slash) /\ HasPrefix(u, p)}

findHandler_PrefixFirst(hs, url) ==
    IF PrefixMatches(hs, url) /= {}
    THEN {hs[p] : p \in PrefixMatches(hs, url)}
    ELSE IF Registered(hs, url) THEN {hs[url]} ELSE {NoHandler}

\* Hub.findHandler: the handlers a call may return (a Go map is ranged over in
\* an unspecified order, so several prefix patterns give several outcomes)
findHandler(hs, url) ==
    IF Registered(hs, url)
    THEN {hs[url]}
    ELSE IF PrefixMatches(hs, url) /= {}
    THEN {hs[p] : p \in PrefixMatches(hs, url)}
    ELSE LET path == extractPath(url)
         IN  IF Registered(hs, path)
             THEN {hs[path]}
             ELSE IF PrefixMatches(hs, path) /= {}
             THEN {hs[p] : p \in PrefixMatches(hs, path)}
             ELSE {NoHandler}

\* Hub.matchURL
matchURL(url, pattern) ==
    \/ url = pattern
    \/ HasSuffix(pattern, Slash) /\ HasPrefix(url, pattern)
    \/ extractPath(url) = pattern
    \/ HasSuffix(pattern, Slash) /\ HasPrefix(extractPath(url), pattern)

\* Hub.generateSessionID: "ws_" + time + "_" + itoa(counter); the counter alone
\* tells two ids of one hub apart
generateSessionID(counter) == <<"ws", counter>>

\* the next free heap cell
NextFree == CHOOSE i \in SessIdx : ~session[i].alloc /\ \A j \in SessIdx : j < i => session[j].alloc

\* the bound on Session objects, counting the Connect calls about to allocate
CanAlloc ==
    Cardinality({i \in SessIdx : session[i].alloc})
      + Cardinality({t \in DOMAIN pc :
                        pc[t].step \in {"Connect.insert", "OpenChannel.Connect"}}) < MaxSessions

Unlocked == hub.sessionsMu = ""

\* Hub.Handle
Handle(pattern, handler) ==
    /\ ~panicked
    /\ hub' = [hub EXCEPT !.handlers[pattern] = handler]
    /\ UNCHANGED <<session, pc, ret, obs, nenv, nmsg, panicked, transport, channel,
                   now, http, ctx, stream>>

\* Hub.SetDefaultHandler
SetDefaultHandler(handler) ==
    /\ ~panicked
    /\ hub' = [hub EXCEPT !.defaultHandler = handler]
    /\ UNCHANGED <<session, pc, ret, obs, nenv, nmsg, panicked, transport, channel,
                   now, http, ctx, stream>>

HubConnectFind_NoDefault(t, url, h) ==
    /\ IsIdle(t)
    /\ CanAlloc
    /\ h \in findHandler(hub.handlers, url)
    /\ IF h = NoHandler
       THEN /\ pc' = [pc EXCEPT ![t] = Idle]
            /\ ret' = [ret EXCEPT ![t] = [NoRet EXCEPT !.op = "Hub.Connect",
                                                      !.val = "ErrNoHandler",
                                                      !.url = url]]
       ELSE /\ pc' = [pc EXCEPT ![t] =
                        [Idle EXCEPT !.op = "Hub.Connect", !.step = "Connect.insert",
                                     !.url = url, !.h = h]]
            /\ UNCHANGED ret
    /\ UNCHANGED <<hub, session, obs, nenv, nmsg, panicked, transport, channel,
                   now, http, ctx, stream>>

\* Hub.Connect, lines 77-83: resolve the handler or fail with ErrNoHandler
HubConnectFind(t, url, h) ==
    /\ IsIdle(t)
    /\ CanAlloc
    /\ h \in findHandler(hub.handlers, url)
    /\ IF h = NoHandler /\ hub.defaultHandler = NoHandler
       THEN /\ pc' = [pc EXCEPT ![t] = Idle]
            /\ ret' = [ret EXCEPT ![t] = [NoRet EXCEPT !.op = "Hub.Connect",
                                                      !.val = "ErrNoHandler",
                                                      !.url = url]]
       ELSE /\ pc' = [pc EXCEPT ![t] =
                        [Idle EXCEPT !.op = "Hub.Connect", !.step = "Connect.insert",
                                     !.url = url,
                                     !.h = IF h = NoHandler THEN hub.defaultHandler ELSE h]]
            /\ UNCHANGED ret
    /\ UNCHANGED <<hub, session, obs, nenv, nmsg, panicked, transport, channel,
                   now, http, ctx, stream>>

HubConnectInsert_NoAdd(t) ==
    /\ AtStep(t, "Connect.insert")
    /\ Unlocked
    /\ LET id == generateSessionID(hub.counter + 1)
           s  == NextFree
       IN  /\ hub' = [hub EXCEPT !.sessions[id] = s]
           /\ session' = [session EXCEPT ![s] = NewSession(id, pc[t].url, pc[t].h)]
           /\ obs' = [obs EXCEPT ![s].via = "Hub.Connect"]
           /\ pc' = [pc EXCEPT ![t].step = "Connect.OnConnect", ![t].s = s, ![t].id = id]
    /\ UNCHANGED <<ret, nenv, nmsg, panicked, transport, channel, now, http, ctx, stream>>

\* Hub.Connect, lines 85-90: generateSessionID (an atomic add, which commutes
\* with every other step), NewSession, and h.sessions[sessionID] = session
\* under the lock; obs.via records which operation created the session
HubConnectInsert(t) ==
    /\ AtStep(t, "Connect.insert")
    /\ Unlocked
    /\ LET id == generateSessionID(hub.counter + 1)
           s  == NextFree
       IN  /\ hub' = [hub EXCEPT !.counter = @ + 1, !.sessions[id] = s]
           /\ session' = [session EXCEPT ![s] = NewSession(id, pc[t].url, pc[t].h)]
           /\ obs' = [obs EXCEPT ![s].via = "Hub.Connect"]
           /\ pc' = [pc EXCEPT ![t].step = "Connect.OnConnect", ![t].s = s, ![t].id = id]
    /\ UNCHANGED <<ret, nenv, nmsg, panicked, transport, channel, now, http, ctx, stream>>

\* Hub.Connect line 93 and Hub.ConnectWithID line 127: handler.OnConnect(session)
\* answers nil or an error
HubOnConnect(t, ok) ==
    /\ AtStep(t, "Connect.OnConnect")
    /\ LET s == pc[t].s
       IN  obs' = [obs EXCEPT ![s].OnConnect = @ + 1,
                              ![s].OnConnectOf = session[s].Handler,
                              ![s].accepted = ok,
                              ![s].held = ok]
    /\ pc' = [pc EXCEPT ![t].step = IF ok THEN "Connect.created" ELSE "Connect.remove"]
    /\ UNCHANGED <<hub, session, ret, nenv, nmsg, panicked, transport, channel,
                   now, http, ctx, stream>>

HubConnectRemove_Keep(t) ==
    /\ AtStep(t, "Connect.remove")
    /\ Unlocked
    /\ obs' = [obs EXCEPT ![pc[t].s].connectRet = "ErrOnConnect"]
    /\ AfterConnect(t, "ErrOnConnect")
    /\ UNCHANGED <<hub, session, nenv, nmsg, panicked, transport, channel, now, http, ctx, stream>>

\* Hub.Connect lines 94-97 and Hub.ConnectWithID lines 128-131:
\* delete(h.sessions, sessionID) under the lock; return nil, err
HubConnectRemove(t) ==
    /\ AtStep(t, "Connect.remove")
    /\ Unlocked
    /\ hub' = [hub EXCEPT !.sessions[pc[t].id] = 0]
    /\ obs' = [obs EXCEPT ![pc[t].s].connectRet = "ErrOnConnect"]
    /\ AfterConnect(t, "ErrOnConnect")
    /\ UNCHANGED <<session, nenv, nmsg, panicked, transport, channel, now, http, ctx, stream>>

\* Hub.Connect lines 100-104 and Hub.ConnectWithID lines 134-138
HubConnectCreated(t) ==
    /\ AtStep(t, "Connect.created")
    /\ obs' = IF hub.onSessionCreated
              THEN [obs EXCEPT ![pc[t].s].created = @ + 1, ![pc[t].s].connectRet = "session"]
              ELSE [obs EXCEPT ![pc[t].s].connectRet = "session"]
    /\ AfterConnect(t, "session")
    /\ UNCHANGED <<hub, session, nenv, nmsg, panicked, transport, channel, now, http, ctx, stream>>

\* Hub.ConnectWithID, lines 109-117: resolve the handler, NewSession
HubConnectWithIDFind(t, id, url, h) ==
    /\ IsIdle(t)
    /\ CanAlloc
    /\ h \in findHandler(hub.handlers, url)
    /\ IF h = NoHandler /\ hub.defaultHandler = NoHandler
       THEN /\ pc' = [pc EXCEPT ![t] = Idle]
            /\ ret' = [ret EXCEPT ![t] = [NoRet EXCEPT !.op = "Hub.ConnectWithID",
                                                      !.val = "ErrNoHandler"]]
            /\ UNCHANGED <<session, obs>>
       ELSE /\ session' = [session EXCEPT ![NextFree] =
                             NewSession(id, url,
                                        IF h = NoHandler THEN hub.defaultHandler ELSE h)]
            /\ pc' = [pc EXCEPT ![t] =
                        [Idle EXCEPT !.op = "Hub.ConnectWithID",
                                     !.step = "ConnectWithID.lock",
                                     !.url = url, !.id = id, !.s = NextFree,
                                     !.h = IF h = NoHandler THEN hub.defaultHandler ELSE h]]
            /\ obs' = [obs EXCEPT ![NextFree].via = "Hub.ConnectWithID"]
            /\ UNCHANGED ret
    /\ UNCHANGED <<hub, nenv, nmsg, panicked, transport, channel, now, http, ctx, stream>>

HubConnectWithIDLock_NoClose(t) ==
    /\ At(t, "Hub.ConnectWithID", "ConnectWithID.lock")
    /\ Unlocked
    /\ hub' = [hub EXCEPT !.sessionsMu = t]
    /\ pc' = [pc EXCEPT ![t].step = "ConnectWithID.insert", ![t].cs = hub.sessions[pc[t].id]]
    /\ UNCHANGED <<session, ret, obs, nenv, nmsg, panicked, transport, channel,
                   now, http, ctx, stream>>

\* Hub.ConnectWithID, lines 119-123: take the lock; an old session under the
\* same id is closed while the lock is held
HubConnectWithIDLock(t) ==
    /\ At(t, "Hub.ConnectWithID", "ConnectWithID.lock")
    /\ Unlocked
    /\ hub' = [hub EXCEPT !.sessionsMu = t]
    /\ LET old == hub.sessions[pc[t].id]
       IN  pc' = IF old /= 0
                 THEN [pc EXCEPT ![t].step = "Close.latch", ![t].cs = old]
                 ELSE [pc EXCEPT ![t].step = "ConnectWithID.insert"]
    /\ UNCHANGED <<session, ret, obs, nenv, nmsg, panicked, transport, channel,
                   now, http, ctx, stream>>

\* Hub.ConnectWithID, lines 124-125: register the new session, release the lock
HubConnectWithIDInsert(t) ==
    /\ At(t, "Hub.ConnectWithID", "ConnectWithID.insert")
    /\ hub.sessionsMu = t
    /\ hub' = [hub EXCEPT !.sessions[pc[t].id] = pc[t].s, !.sessionsMu = ""]
    /\ pc' = [pc EXCEPT ![t].step = "Connect.OnConnect"]
    /\ UNCHANGED <<session, ret, obs, nenv, nmsg, panicked, transport, channel,
                   now, http, ctx, stream>>

HubDisconnect_NoRemove(t, id) ==
    /\ IsIdle(t)
    /\ Unlocked
    /\ LET s == hub.sessions[id]
       IN  IF s = 0
           THEN UNCHANGED <<pc, ret>>
           ELSE /\ pc' = [pc EXCEPT ![t] =
                            [Idle EXCEPT !.op = "Hub.Disconnect", !.step = "Close.latch",
                                         !.id = id, !.s = s, !.cs = s]]
                /\ UNCHANGED ret
    /\ UNCHANGED <<hub, session, obs, nenv, nmsg, panicked, transport, channel,
                   now, http, ctx, stream>>

\* Hub.Disconnect, lines 143-151: look up and delete under the lock, then Close
HubDisconnect(t, id) ==
    /\ IsIdle(t)
    /\ Unlocked
    /\ LET s == hub.sessions[id]
       IN  IF s = 0
           THEN /\ UNCHANGED <<pc, ret, hub>>
           ELSE /\ hub' = [hub EXCEPT !.sessions[id] = 0]
                /\ pc' = [pc EXCEPT ![t] =
                            [Idle EXCEPT !.op = "Hub.Disconnect", !.step = "Close.latch",
                                         !.id = id, !.s = s, !.cs = s]]
                /\ UNCHANGED ret
    /\ UNCHANGED <<session, obs, nenv, nmsg, panicked, transport, channel, now, http, ctx, stream>>

HubClose_NoReset(t, first) ==
    /\ IsIdle(t) \/ At(t, "Transport.Stop", "Stop.Close")
    /\ Unlocked
    /\ LET snap == {hub.sessions[i] : i \in AllIds} \ {0}
       IN  IF snap = {}
           THEN /\ first = 0
                /\ pc' = [pc EXCEPT ![t] = Idle]
                /\ UNCHANGED ret
           ELSE /\ first \in snap
                /\ pc' = [pc EXCEPT ![t] =
                            [Idle EXCEPT !.op = "Hub.Close", !.step = "Close.latch",
                                         !.s = first, !.cs = first,
                                         !.snap = snap \ {first}]]
                /\ UNCHANGED ret
    /\ UNCHANGED <<hub, session, obs, nenv, nmsg, panicked, transport, channel,
                   now, http, ctx, stream>>

\* Hub.Close, lines 279-288, called directly or from InProcessTransport.Stop
\* (part_000, line 498): snapshot the sessions and reset the registry under
\* the lock; then the first session of the snapshot (the map is ranged over in
\* an unspecified order)
HubClose(t, first) ==
    /\ IsIdle(t) \/ At(t, "Transport.Stop", "Stop.Close")
    /\ Unlocked
    /\ LET snap == {hub.sessions[i] : i \in AllIds} \ {0}
       IN  /\ hub' = [hub EXCEPT !.sessions = [i \in AllIds |-> 0]]
           /\ IF snap = {}
              THEN /\ first = 0
                   /\ pc' = [pc EXCEPT ![t] = Idle]
                   /\ UNCHANGED ret
              ELSE /\ first \in snap
                   /\ pc' = [pc EXCEPT ![t] =
                               [Idle EXCEPT !.op = "Hub.Close", !.step = "Close.latch",
                                            !.s = first, !.cs = first,
                                            !.snap = snap \ {first}]]
                   /\ UNCHANGED ret
    /\ UNCHANGED <<session, obs, nenv, nmsg, panicked, transport, channel, now, http, ctx, stream>>

\* Hub.Disconnect lines 152-154 and Hub.Close lines 289-291:
\* if h.onSessionDestroyed != nil { h.onSessionDestroyed(session) };
\* Hub.Close then goes on with the next session of its snapshot
HubDestroyed(t, next) ==
    /\ AtStep(t, "destroyed")
    /\ obs' = IF hub.onSessionDestroyed
              THEN [obs EXCEPT ![pc[t].cs].destroyed = @ + 1]
              ELSE obs
    /\ IF pc[t].op = "Hub.Close" /\ pc[t].snap /= {}
       THEN /\ next \in pc[t].snap
            /\ pc' = [pc EXCEPT ![t].step = "Close.latch", ![t].s = next, ![t].cs = next,
                                ![t].snap = @ \ {next}]
            /\ UNCHANGED ret
       ELSE /\ next = 0
            /\ Done(t)
    /\ UNCHANGED <<hub, session, nenv, nmsg, panicked, transport, channel, now, http, ctx, stream>>

DefaultHandlers == {"D"}

\* the registrations the application makes: Handle("/ws/", A),
\* Handle("/ws/chat", B), Handle("/", C)
RouteTable == {<<P_ws, "A">>, <<U_chat, "B">>, <<P_root, "C">>}

(***************************************************************************)
(* Routing: a fresh hub, handlers registered at any time, one goroutine    *)
(* connecting.                                                             *)
(***************************************************************************)
InitRoute ==
    /\ hub = [NewHub EXCEPT !.onSessionCreated = TRUE, !.onSessionDestroyed = TRUE]
    /\ session = [i \in SessIdx |-> NoSession]
    /\ pc = [t \in Threads1 |-> Idle]
    /\ ret = [t \in Threads1 |-> NoRet]
    /\ obs = [i \in SessIdx |-> NoObs]
    /\ nenv = 0
    /\ nmsg = 0
    /\ panicked = FALSE
    /\ transport = NewInProcessTransport(SendQueueCap)
    /\ channel = [i \in SessIdx |-> NoChannel]
    /\ now = 0
    /\ http = NoHttp
    /\ ctx = Background
    /\ stream = NoStream

NextRoute ==
    \/ \E r \in RouteTable : Handle(r[1], r[2])
    \/ \E h \in DefaultHandlers : SetDefaultHandler(h)
    \/ \E t \in DOMAIN pc, u \in Urls, h \in Handlers \cup {NoHandler} : HubConnectFind(t, u, h)
    \/ \E t \in DOMAIN pc : HubConnectInsert(t)
    \/ \E t \in DOMAIN pc, ok \in BOOLEAN : HubOnConnect(t, ok)
    \/ \E t \in DOMAIN pc : HubConnectRemove(t)
    \/ \E t \in DOMAIN pc : HubConnectCreated(t)

SpecRoute == InitRoute /\ [][NextRoute]_vars

\* a hub on which some of the Handle calls of the route table, and possibly
\* SetDefaultHandler, have returned, and on which none is made any more
InitSelect ==
    \E R \in SUBSET RouteTable, d \in DefaultHandlers \cup {NoHandler} :
        /\ hub = [NewHub EXCEPT !.handlers = [p \in Patterns |->
                                                IF \E r \in R : r[1] = p
                                                THEN (CHOOSE r \in R : r[1] = p)[2]
                                                ELSE NoHandler],
                                !.defaultHandler = d,
                                !.onSessionCreated = TRUE,
                                !.onSessionDestroyed = TRUE]
        /\ session = [i \in SessIdx |-> NoSession]
        /\ pc = [t \in Threads1 |-> Idle]
        /\ ret = [t \in Threads1 |-> NoRet]
        /\ obs = [i \in SessIdx |-> NoObs]
        /\ nenv = 0
        /\ nmsg = 0
        /\ panicked = FALSE
        /\ transport = NewInProcessTransport(SendQueueCap)
        /\ channel = [i \in SessIdx |-> NoChannel]
        /\ now = 0
        /\ http = NoHttp
        /\ ctx = Background
        /\ stream = NoStream

NextSelect ==
    \/ \E t \in DOMAIN pc, u \in Urls, h \in Handlers \cup {NoHandler} : HubConnectFind(t, u, h)
    \/ \E t \in DOMAIN pc : HubConnectInsert(t)
    \/ \E t \in DOMAIN pc, ok \in BOOLEAN : HubOnConnect(t, ok)
    \/ \E t \in DOMAIN pc : HubConnectRemove(t)
    \/ \E t \in DOMAIN pc : HubConnectCreated(t)

SpecSelect == InitSelect /\ [][NextSelect]_vars

(***************************************************************************)
(* Lifecycle: a hub with one handler and both observers set, two           *)
(* goroutines connecting, disconnecting and closing.                       *)
(***************************************************************************)
InitHub ==
    /\ hub = [NewHub EXCEPT !.handlers[P_ws] = "A",
                            !.onSessionCreated = TRUE,
                            !.onSessionDestroyed = TRUE]
    /\ session = [i \in SessIdx |-> NoSession]
    /\ pc = [t \in Threads2 |-> Idle]
    /\ ret = [t \in Threads2 |-> NoRet]
    /\ obs = [i \in SessIdx |-> NoObs]
    /\ nenv = 0
    /\ nmsg = 0
    /\ panicked = FALSE
    /\ transport = NewInProcessTransport(SendQueueCap)
    /\ channel = [i \in SessIdx |-> NoChannel]
    /\ now = 0
    /\ http = NoHttp
    /\ ctx = Background
    /\ stream = NoStream

HubUrls == {U_chat}

\* the ids a caller of Disconnect can name: the ones it chose itself and the
\* ones of the sessions it was handed
KnownIds == GivenIds \cup {session[s].ID : s \in {i \in SessIdx : obs[i].held}}

NextHub ==
    \/ \E t \in DOMAIN pc, u \in HubUrls, h \in Handlers \cup {NoHandler} : HubConnectFind(t, u, h)
    \/ \E t \in DOMAIN pc : HubConnectInsert(t)
    \/ \E t \in DOMAIN pc, ok \in BOOLEAN : HubOnConnect(t, ok)
    \/ \E t \in DOMAIN pc : HubConnectRemove(t)
    \/ \E t \in DOMAIN pc : HubConnectCreated(t)
    \/ \E t \in DOMAIN pc, id \in KnownIds : HubDisconnect(t, id)
    \/ \E t \in DOMAIN pc, s \in SessIdx \cup {0} : HubClose(t, s)
    \/ \E t \in DOMAIN pc, s \in SessIdx \cup {0} : HubDestroyed(t, s)
    \/ \E t \in DOMAIN pc, s \in SessIdx : CallSessionClose(t, s)
    \/ \E t \in DOMAIN pc : SessionCloseLatch(t)
    \/ \E t \in DOMAIN pc : SessionCloseChan(t)
    \/ \E t \in DOMAIN pc : SessionCloseOnClose(t)

SpecHub == InitHub /\ [][NextHub]_vars

(***************************************************************************)
(* Reconnection: the same hub, two goroutines connecting under an id of    *)
(* their choice, disconnecting and closing.                                *)
(***************************************************************************)
NextReconnect ==
    \/ \E t \in DOMAIN pc, id \in GivenIds, u \in HubUrls, h \in Handlers \cup {NoHandler} :
          HubConnectWithIDFind(t, id, u, h)
    \/ \E t \in DOMAIN pc : HubConnectWithIDLock(t)
    \/ \E t \in DOMAIN pc : HubConnectWithIDInsert(t)
    \/ \E t \in DOMAIN pc, ok \in BOOLEAN : HubOnConnect(t, ok)
    \/ \E t \in DOMAIN pc : HubConnectRemove(t)
    \/ \E t \in DOMAIN pc : HubConnectCreated(t)
    \/ \E t \in DOMAIN pc, id \in KnownIds : HubDisconnect(t, id)
    \/ \E t \in DOMAIN pc, s \in SessIdx \cup {0} : HubClose(t, s)
    \/ \E t \in DOMAIN pc, s \in SessIdx \cup {0} : HubDestroyed(t, s)
    \/ \E t \in DOMAIN pc, s \in SessIdx : CallSessionClose(t, s)
    \/ \E t \in DOMAIN pc : SessionCloseLatch(t)
    \/ \E t \in DOMAIN pc : SessionCloseChan(t)
    \/ \E t \in DOMAIN pc : SessionCloseOnClose(t)

SpecReconnect == InitHub /\ [][NextReconnect]_vars

\* Connect next to ConnectWithID called with an id of the form the hub
\* generates: the first id of the current second
NextGenerate ==
    \/ \E t \in DOMAIN pc, u \in HubUrls, h \in Handlers \cup {NoHandler} : HubConnectFind(t, u, h)
    \/ \E t \in DOMAIN pc : HubConnectInsert(t)
    \/ \E t \in DOMAIN pc, ok \in BOOLEAN : HubOnConnect(t, ok)
    \/ \E t \in DOMAIN pc : HubConnectRemove(t)
    \/ \E t \in DOMAIN pc : HubConnectCreated(t)
    \/ \E t \in DOMAIN pc, u \in HubUrls, h \in Handlers \cup {NoHandler} :
          HubConnectWithIDFind(t, generateSessionID(1), u, h)
    \/ \E t \in DOMAIN pc : HubConnectWithIDLock(t)
    \/ \E t \in DOMAIN pc : HubConnectWithIDInsert(t)
    \/ \E t \in DOMAIN pc : SessionCloseLatch(t)
    \/ \E t \in DOMAIN pc : SessionCloseChan(t)
    \/ \E t \in DOMAIN pc : SessionCloseOnClose(t)

SpecGenerate == InitHub /\ [][NextGenerate]_vars

(***************************************************************************)
(* Hub properties.                                                         *)
(***************************************************************************)
InRegistry(s) == \E id \in AllIds : hub.sessions[id] = s

Quiescent == \A t \in DOMAIN pc : pc[t].op = "idle"

\* C7: whenever no hub or session operation is under way, a session is in
\* Hub.sessions exactly if OnConnect accepted it and it is not closed.
C7_RegistryIffAcceptedAndOpen ==
    Quiescent =>
        \A s \in SessIdx :
            session[s].alloc =>
                (InRegistry(s) <=> (obs[s].accepted /\ ~session[s].closed))

\* goroutine t calls Hub.Connect(u) in this step
ConnectCalled(t, u) ==
    /\ pc[t].op = "idle"
    /\ \/ pc'[t].op = "Hub.Connect" /\ pc'[t].url = u
       \/ ret'[t] /= ret[t] /\ ret'[t].op = "Hub.Connect" /\ ret'[t].url = u

\* C8: Connect(u) binds the handler registered under exactly u when there is
\* one, whatever prefix patterns match u as well; when u is not registered
\* and a single registered prefix pattern matches u, it binds that pattern's
\* handler; the session is created with the bound handler and OnConnect is
\* invoked on it, once.
C8_ExactBeforePrefix ==
    [][\A t \in DOMAIN pc :
          /\ \A u \in Urls :
                (ConnectCalled(t, u) /\ Registered(hub.handlers, u))
                   => (pc'[t].op = "Hub.Connect" /\ pc'[t].h = hub.handlers[u])
          /\ \A u \in Urls, p \in Patterns :
                (/\ ConnectCalled(t, u)
                 /\ ~Registered(hub.handlers, u)
                 /\ PrefixMatches(hub.handlers, u) = {p})
                   => (pc'[t].op = "Hub.Connect" /\ pc'[t].h = hub.handlers[p])
          /\ (pc[t].step = "Connect.insert" /\ pc'[t].step = "Connect.OnConnect")
                => /\ session'[pc'[t].s].Handler = pc[t].h
                   /\ session'[pc'[t].s].URL = pc[t].url
          /\ (pc[t].step = "Connect.OnConnect" /\ pc'[t].step /= "Connect.OnConnect")
                => /\ obs'[pc[t].s].OnConnectOf = pc[t].h
                   /\ obs'[pc[t].s].OnConnect = 1]_vars

C8_Witness ==
    /\ hub.handlers[P_ws] = "A"
    /\ hub.handlers[U_chat] = "B"
    /\ hub.handlers[P_root] = NoHandler
    /\ \E s1, s2 \in SessIdx :
          /\ session[s1].URL = U_chat /\ obs[s1].OnConnectOf = "B"
          /\ session[s2].URL = U_room /\ obs[s2].OnConnectOf = "A"

NoMatch(u) ==
    \A p \in Patterns : Registered(hub.handlers, p) => ~matchURL(u, p)

\* C9: Connect(u) returns ErrNoHandler exactly when no registered pattern
\* matches u and no default handler is set, and then the hub, the sessions
\* and the callbacks observed are as before; when no pattern matches and a
\* default handler is set, the session is created with the default handler.
C9_NoHandlerOrDefault ==
    [][\A t \in DOMAIN pc :
          /\ \A u \in Urls :
                ConnectCalled(t, u) =>
                   /\ (NoMatch(u) /\ hub.defaultHandler = NoHandler)
                         <=> (pc'[t].op = "idle" /\ ret'[t].val = "ErrNoHandler")
                   /\ (NoMatch(u) /\ hub.defaultHandler = NoHandler)
                         => (hub' = hub /\ session' = session /\ obs' = obs)
                   /\ (NoMatch(u) /\ hub.defaultHandler /= NoHandler)
                         => (pc'[t].op = "Hub.Connect" /\ pc'[t].h = hub.defaultHandler)
          /\ (pc[t].step = "Connect.insert" /\ pc'[t].step = "Connect.OnConnect")
                => /\ session'[pc'[t].s].Handler = pc[t].h
                   /\ \E id \in AllIds : hub'.sessions[id] = pc'[t].s]_vars

C9_Witness ==
    /\ \E t \in DOMAIN pc : ret[t].op = "Hub.Connect" /\ ret[t].val = "ErrNoHandler"
    /\ \E s \in SessIdx :
          /\ session[s].Handler \in DefaultHandlers
          /\ session[s].URL = U_api
          /\ obs[s].accepted
          /\ InRegistry(s)

ConnectRunning(s) ==
    \E t \in DOMAIN pc : pc[t].op = "Hub.Connect" /\ pc[t].s = s

HubHandleMessage(t, id, data) ==
    /\ IsIdle(t)
    /\ Unlocked
    /\ nmsg < MaxMessages
    /\ nmsg' = nmsg + 1
    /\ LET s == hub.sessions[id]
       IN  IF s = 0
           THEN /\ pc' = [pc EXCEPT ![t] = Idle]
                /\ ret' = [ret EXCEPT ![t] = [NoRet EXCEPT !.op = "Hub.HandleMessage",
                                                          !.val = "ErrSessionNotFound",
                                                          !.id = id]]
           ELSE /\ pc' = [pc EXCEPT ![t] =
                            [Idle EXCEPT !.op = "Hub.HandleMessage",
                                         !.step = "HandleMessage.IsClosed",
                                         !.s = s, !.id = id, !.data = data,
                                         !.req = nmsg + 1]]
                /\ UNCHANGED ret
    /\ UNCHANGED <<hub, session, obs, nenv, panicked, transport, channel, now, http, ctx, stream>>

HubHandleMessageIsClosed_Skip(t) ==
    /\ At(t, "Hub.HandleMessage", "HandleMessage.IsClosed")
    /\ pc' = [pc EXCEPT ![t].step = "HandleMessage.parse"]
    /\ UNCHANGED <<hub, session, ret, obs, nenv, nmsg, panicked, transport, channel,
                   now, http, ctx, stream>>

\* Hub.HandleMessage, lines 172-174: if session.IsClosed() { return nil, ErrSessionClosed }
HubHandleMessageIsClosed(t) ==
    /\ At(t, "Hub.HandleMessage", "HandleMessage.IsClosed")
    /\ IF session[pc[t].s].closed
       THEN Return(t, "ErrSessionClosed")
       ELSE /\ pc' = [pc EXCEPT ![t].step = "HandleMessage.parse"]
            /\ UNCHANGED ret
    /\ UNCHANGED <<hub, session, obs, nenv, nmsg, panicked, transport, channel,
                   now, http, ctx, stream>>

\* Hub.HandleMessage, line 175: return session.HandleMessage(data), that is
\* Session.HandleMessage lines 114-122 (parse, track the pending request);
\* OnMessage follows as a step of its own
HubHandleMessageDelegate(t) ==
    /\ At(t, "Hub.HandleMessage", "HandleMessage.parse")
    /\ LET s   == pc[t].s
           req == ParseRequest(pc[t].data)
       IN  IF req.err
           THEN /\ Return(t, "ErrParse")
                /\ UNCHANGED session
           ELSE /\ session' = IF req.RequestID /= ""
                              THEN [session EXCEPT ![s].pending =
                                      trackPending(@, req.RequestID, pc[t].req, now)]
                              ELSE session
                /\ IF session[s].Handler /= NoHandler
                   THEN /\ pc' = [pc EXCEPT ![t].step = "HandleMessage.OnMessage",
                                            ![t].cl = session[s].closed]
                        /\ UNCHANGED ret
                   ELSE Return(t, "nil")
    /\ UNCHANGED <<hub, obs, nenv, nmsg, panicked, transport, channel, now, http, ctx, stream>>

\* a hub on which Handle("/ws/", A) and one accepted Connect("/ws/chat") have
\* returned: the session is registered under the first generated id
InitConnected ==
    /\ hub = [NewHub EXCEPT !.handlers[P_ws] = "A",
                            !.onSessionCreated = TRUE,
                            !.onSessionDestroyed = TRUE,
                            !.counter = 1,
                            !.sessions[generateSessionID(1)] = 1]
    /\ session = [i \in SessIdx |-> IF i = 1 THEN NewSession(generateSessionID(1), U_chat, "A")
                                            ELSE NoSession]
    /\ pc = [t \in Threads2 |-> Idle]
    /\ ret = [t \in Threads2 |-> NoRet]
    /\ obs = [i \in SessIdx |->
                IF i = 1
                THEN [NoObs EXCEPT !.held = TRUE, !.OnConnect = 1, !.OnConnectOf = "A",
                                   !.accepted = TRUE, !.created = 1, !.connectRet = "session"]
                ELSE NoObs]
    /\ nenv = 0
    /\ nmsg = 0
    /\ panicked = FALSE
    /\ transport = NewInProcessTransport(SendQueueCap)
    /\ channel = [i \in SessIdx |-> NoChannel]
    /\ now = 0
    /\ http = NoHttp
    /\ ctx = Background
    /\ stream = NoStream

\* the ids a caller passes: the id of the session it was handed and one that
\* was never registered
CallerIds == {generateSessionID(1)} \cup GivenIds

NextHubMessage ==
    \/ \E t \in DOMAIN pc, id \in CallerIds, d \in Frames : HubHandleMessage(t, id, d)
    \/ \E t \in DOMAIN pc : HubHandleMessageIsClosed(t)
    \/ \E t \in DOMAIN pc : HubHandleMessageDelegate(t)
    \/ \E t \in DOMAIN pc, r \in OnMessageResults : SessionOnMessage(t, r)
    \/ \E t \in DOMAIN pc, id \in CallerIds : HubDisconnect(t, id)
    \/ \E t \in DOMAIN pc, s \in SessIdx \cup {0} : HubDestroyed(t, s)
    \/ \E t \in DOMAIN pc, s \in SessIdx : CallSessionClose(t, s)
    \/ \E t \in DOMAIN pc : SessionCloseLatch(t)
    \/ \E t \in DOMAIN pc : SessionCloseChan(t)
    \/ \E t \in DOMAIN pc : SessionCloseOnClose(t)

SpecHubMessage == InitConnected /\ [][NextHubMessage]_vars

(***************************************************************************)
(* Hub.Send (src/unnamed/part_004, lines 179-188) and the other callers of *)
(* Session.Send that turn its boolean into an error.                       *)
(***************************************************************************)
\* what the caller returns when Session.Send answers false: Hub.Send line 185,
\* InProcessChannel.Send line 58, InProcessTransport.SendToChannel line 520
SendError(op) == IF op = "Hub.Send" THEN "ErrSessionClosed" ELSE "ErrChannelFull"

\* Hub.Send, lines 180-183: GetSession under the read lock
HubSend(t, id) ==
    /\ IsIdle(t)
    /\ Unlocked
    /\ nenv < MaxEnvelopes
    /\ nenv' = nenv + 1
    /\ LET s == hub.sessions[id]
       IN  IF s = 0
           THEN /\ pc' = [pc EXCEPT ![t] = Idle]
                /\ ret' = [ret EXCEPT ![t] = [NoRet EXCEPT !.op = "Hub.Send",
                                                          !.val = "ErrSessionNotFound",
                                                          !.id = id]]
           ELSE /\ pc' = [pc EXCEPT ![t] =
                            [Idle EXCEPT !.op = "Hub.Send", !.step = "Called.check",
                                         !.s = s, !.id = id,
                                         !.env = [by |-> t, n |-> nenv + 1]]]
                /\ UNCHANGED ret
    /\ UNCHANGED <<hub, session, obs, nmsg, panicked, transport, channel, now, http, ctx, stream>>

\* Session.Send, lines 85-90, called from Hub.Send, Channel.Send or
\* SendToChannel: the closed latch is read under the read lock
CalledSendCheck(t) ==
    /\ AtStep(t, "Called.check")
    /\ IF session[pc[t].s].closed
       THEN Return(t, SendError(pc[t].op))
       ELSE /\ pc' = [pc EXCEPT ![t].step = "Called.select"]
            /\ UNCHANGED ret
    /\ UNCHANGED <<hub, session, obs, nenv, nmsg, panicked, transport, channel,
                   now, http, ctx, stream>>

\* where a Send that succeeded returns to: its caller, or the loop of
\* SendStream (inprocess_channel.go, lines 100-113), which selects again
AfterSend(t) ==
    IF pc[t].op = "Channel.SendStream"
    THEN /\ pc' = [pc EXCEPT ![t].step = "SendStream.select"]
         /\ UNCHANGED ret
    ELSE Return(t, "nil")

\* Session.Send, lines 92-98, and the caller's return
CalledSendSelect(t) ==
    /\ AtStep(t, "Called.select")
    /\ LET s == pc[t].s
       IN  IF session[s].chanClosed
           THEN /\ Panic(t)
                /\ UNCHANGED <<session, obs, ret>>
           ELSE IF Len(session[s].SendChan) < SendQueueCap
           THEN /\ session' = [session EXCEPT ![s].SendChan = Append(@, pc[t].env)]
                /\ obs' = [obs EXCEPT ![s].okLog = Append(@, pc[t].env)]
                /\ AfterSend(t)
                /\ UNCHANGED panicked
           ELSE /\ Return(t, SendError(pc[t].op))
                /\ UNCHANGED <<session, obs, panicked>>
    /\ UNCHANGED <<hub, nenv, nmsg, transport, channel, now, http, ctx, stream>>

NextHubSend ==
    \/ \E t \in DOMAIN pc, id \in CallerIds : HubSend(t, id)
    \/ \E t \in DOMAIN pc : CalledSendCheck(t)
    \/ \E t \in DOMAIN pc : CalledSendSelect(t)
    \/ \E s \in SessIdx : Drain(s)
    \/ \E t \in DOMAIN pc, s \in SessIdx : CallSessionClose(t, s)
    \/ \E t \in DOMAIN pc : SessionCloseLatch(t)
    \/ \E t \in DOMAIN pc : SessionCloseChan(t)
    \/ \E t \in DOMAIN pc : SessionCloseOnClose(t)

\* one goroutine handles messages while another sends and disconnects
NextHubError ==
    \/ \E t \in Threads1, id \in CallerIds, d \in TrackedFrames : HubHandleMessage(t, id, d)
    \/ \E t \in DOMAIN pc : HubHandleMessageIsClosed(t)
    \/ \E t \in DOMAIN pc : HubHandleMessageDelegate(t)
    \/ \E t \in DOMAIN pc, r \in OnMessageResults : SessionOnMessage(t, r)
    \/ \E id \in CallerIds : HubSend("t2", id)
    \/ \E t \in DOMAIN pc : CalledSendCheck(t)
    \/ \E t \in DOMAIN pc : CalledSendSelect(t)
    \/ \E id \in CallerIds : HubDisconnect("t2", id)
    \/ \E t \in DOMAIN pc, s \in SessIdx \cup {0} : HubDestroyed(t, s)
    \/ \E t \in DOMAIN pc : SessionCloseLatch(t)
    \/ \E t \in DOMAIN pc : SessionCloseChan(t)
    \/ \E t \in DOMAIN pc : SessionCloseOnClose(t)

SpecHubError == InitConnected /\ [][NextHubError]_vars

SpecHubSend == InitConnected /\ [][NextHubSend]_vars

(***************************************************************************)
(* InProcessTransport (src/unnamed/part_000) and InProcessChannel          *)
(* (src/pkg/transport/inprocess_channel.go).                               *)
(***************************************************************************)
\* InProcessTransport.Start
TransportStart ==
    /\ ~panicked
    /\ transport' = [transport EXCEPT !.running = TRUE]
    /\ UNCHANGED <<hub, session, pc, ret, obs, nenv, nmsg, panicked, channel,
                   now, http, ctx, stream>>

\* InProcessTransport.Stop, lines 489-495; Hub.Close follows (line 498)
TransportStop(t) ==
    /\ IsIdle(t)
    /\ IF transport.running
       THEN /\ transport' = [transport EXCEPT !.running = FALSE]
            /\ pc' = [pc EXCEPT ![t] = [Idle EXCEPT !.op = "Transport.Stop",
                                                    !.step = "Stop.Close"]]
       ELSE UNCHANGED <<transport, pc>>
    /\ UNCHANGED <<hub, session, ret, obs, nenv, nmsg, panicked, channel, now, http, ctx, stream>>

TransportHandleRequest_NoCheck(t) ==
    /\ IsIdle(t)
    /\ nmsg < MaxMessages
    /\ nmsg' = nmsg + 1
    /\ pc' = [pc EXCEPT ![t] = [Idle EXCEPT !.op = "Transport.HandleRequest",
                                            !.step = "HandleRequest.adapter"]]
    /\ UNCHANGED <<hub, session, ret, obs, nenv, panicked, transport, channel,
                   now, http, ctx, stream>>

\* InProcessTransport.HandleRequest, lines 431-436: running is read under the
\* read lock
TransportHandleRequest(t) ==
    /\ IsIdle(t)
    /\ nmsg < MaxMessages
    /\ nmsg' = nmsg + 1
    /\ IF transport.running
       THEN /\ pc' = [pc EXCEPT ![t] = [Idle EXCEPT !.op = "Transport.HandleRequest",
                                                    !.step = "HandleRequest.adapter"]]
            /\ UNCHANGED ret
       ELSE /\ pc' = [pc EXCEPT ![t] = Idle]
            /\ ret' = [ret EXCEPT ![t] = [NoRet EXCEPT !.op = "Transport.HandleRequest",
                                                      !.val = "ErrTransportClosed"]]
    /\ UNCHANGED <<hub, session, obs, nenv, panicked, transport, channel, now, http, ctx, stream>>

\* InProcessTransport.HandleRequest, line 439: t.adapter.HandleRequest(req)
TransportHandleRequestAdapter(t) ==
    /\ At(t, "Transport.HandleRequest", "HandleRequest.adapter")
    /\ transport' = [transport EXCEPT !.handled = @ + 1]
    /\ Return(t, "response")
    /\ UNCHANGED <<hub, session, obs, nenv, nmsg, panicked, channel, now, http, ctx, stream>>

TransportOpenChannel_NoCheck(t, url) ==
    /\ IsIdle(t)
    /\ CanAlloc
    /\ pc' = [pc EXCEPT ![t] = [Idle EXCEPT !.op = "Transport.OpenChannel",
                                            !.step = "OpenChannel.Connect",
                                            !.url = url]]
    /\ UNCHANGED <<hub, session, ret, obs, nenv, nmsg, panicked, transport, channel,
                   now, http, ctx, stream>>

\* InProcessTransport.OpenChannel, lines 444-449
TransportOpenChannel(t, url) ==
    /\ IsIdle(t)
    /\ CanAlloc
    /\ IF transport.running
       THEN /\ pc' = [pc EXCEPT ![t] = [Idle EXCEPT !.op = "Transport.OpenChannel",
                                                    !.step = "OpenChannel.Connect",
                                                    !.url = url]]
            /\ UNCHANGED ret
       ELSE /\ pc' = [pc EXCEPT ![t] = Idle]
            /\ ret' = [ret EXCEPT ![t] = [NoRet EXCEPT !.op = "Transport.OpenChannel",
                                                      !.val = "ErrTransportClosed",
                                                      !.url = url]]
    /\ UNCHANGED <<hub, session, obs, nenv, nmsg, panicked, transport, channel,
                   now, http, ctx, stream>>

\* InProcessTransport.OpenChannel, line 452: t.wsHub.Connect(url), that is
\* Hub.Connect lines 77-83; the rest of Connect follows
OpenChannelConnect(t, h) ==
    /\ At(t, "Transport.OpenChannel", "OpenChannel.Connect")
    /\ h \in findHandler(hub.handlers, pc[t].url)
    /\ IF h = NoHandler /\ hub.defaultHandler = NoHandler
       THEN Return(t, "ErrNoHandler")
       ELSE /\ pc' = [pc EXCEPT ![t].step = "Connect.insert",
                                ![t].h = IF h = NoHandler THEN hub.defaultHandler ELSE h]
            /\ UNCHANGED ret
    /\ UNCHANGED <<hub, session, obs, nenv, nmsg, panicked, transport, channel,
                   now, http, ctx, stream>>

\* InProcessTransport.OpenChannel, line 457:
\* return newInProcessChannel(session, t.config.ChannelBufferSize), nil
TransportOpenChannelWrap(t) ==
    /\ At(t, "Transport.OpenChannel", "OpenChannel.wrap")
    /\ channel' = [channel EXCEPT ![pc[t].s] = newInProcessChannel(transport.ChannelBufferSize)]
    /\ Return(t, "channel")
    /\ UNCHANGED <<hub, session, obs, nenv, nmsg, panicked, transport, now, http, ctx, stream>>

\* InProcessChannel.Send, lines 49-56: refuse when the channel or its session
\* is closed, then call Session.Send
ChannelSend(t, s) ==
    /\ IsIdle(t)
    /\ channel[s].alloc
    /\ nenv < MaxEnvelopes
    /\ nenv' = nenv + 1
    /\ IF channel[s].closed \/ session[s].closed
       THEN /\ pc' = [pc EXCEPT ![t] = Idle]
            /\ ret' = [ret EXCEPT ![t] = [NoRet EXCEPT !.op = "Channel.Send", !.s = s,
                                                      !.val = "ErrChannelClosed"]]
       ELSE /\ pc' = [pc EXCEPT ![t] =
                        [Idle EXCEPT !.op = "Channel.Send", !.step = "Called.check",
                                     !.s = s, !.env = [by |-> t, n |-> nenv + 1]]]
            /\ UNCHANGED ret
    /\ UNCHANGED <<hub, session, obs, nmsg, panicked, transport, channel, now, http, ctx, stream>>

\* InProcessTransport.SendToChannel, lines 515-518: GetSession under the read
\* lock, then Session.Send
TransportSendToChannel(t, id) ==
    /\ IsIdle(t)
    /\ Unlocked
    /\ nenv < MaxEnvelopes
    /\ nenv' = nenv + 1
    /\ LET s == hub.sessions[id]
       IN  IF s = 0
           THEN /\ pc' = [pc EXCEPT ![t] = Idle]
                /\ ret' = [ret EXCEPT ![t] = [NoRet EXCEPT !.op = "Transport.SendToChannel",
                                                          !.val = "ErrChannelClosed",
                                                          !.id = id]]
           ELSE /\ pc' = [pc EXCEPT ![t] =
                            [Idle EXCEPT !.op = "Transport.SendToChannel",
                                         !.step = "Called.check", !.s = s, !.id = id,
                                         !.env = [by |-> t, n |-> nenv + 1]]]
                /\ UNCHANGED ret
    /\ UNCHANGED <<hub, session, obs, nmsg, panicked, transport, channel, now, http, ctx, stream>>

ChannelClose_NoOnce(t, s) ==
    /\ IsIdle(t)
    /\ channel[s].alloc
    /\ channel' = [channel EXCEPT ![s].once = TRUE, ![s].closed = TRUE,
                                  ![s].sessionClose = @ + 1]
    /\ pc' = [pc EXCEPT ![t] = [Idle EXCEPT !.op = "Channel.Close",
                                            !.step = "Close.latch",
                                            !.s = s, !.cs = s]]
    /\ UNCHANGED <<hub, session, ret, obs, nenv, nmsg, panicked, transport, now, http, ctx, stream>>

\* InProcessChannel.Close, lines 70-75: the first caller enters closeOnce,
\* sets closed and calls session.Close(); a later caller waits in closeOnce.Do
\* until the first one has left it
ChannelClose(t, s) ==
    /\ IsIdle(t)
    /\ channel[s].alloc
    /\ IF channel[s].once
       THEN /\ pc' = [pc EXCEPT ![t] = [Idle EXCEPT !.op = "Channel.Close",
                                                    !.step = "Once.wait", !.s = s]]
            /\ UNCHANGED channel
       ELSE /\ channel' = [channel EXCEPT ![s].once = TRUE, ![s].closed = TRUE,
                                          ![s].sessionClose = @ + 1]
            /\ pc' = [pc EXCEPT ![t] = [Idle EXCEPT !.op = "Channel.Close",
                                                    !.step = "Close.latch",
                                                    !.s = s, !.cs = s]]
    /\ UNCHANGED <<hub, session, ret, obs, nenv, nmsg, panicked, transport, now, http, ctx, stream>>

\* InProcessChannel.Close, line 76: close(c.done); closing a closed channel
\* panics
ChannelCloseDone(t) ==
    /\ At(t, "Channel.Close", "Close.done")
    /\ channel' = [channel EXCEPT ![pc[t].s].done = @ + 1]
    /\ IF channel[pc[t].s].done > 0
       THEN Panic(t)
       ELSE /\ pc' = [pc EXCEPT ![t].step = "Close.incoming"]
            /\ UNCHANGED panicked
    /\ UNCHANGED <<hub, session, ret, obs, nenv, nmsg, transport, now, http, ctx, stream>>

\* InProcessChannel.Close, lines 77-79: close(c.incoming), closeOnce is left,
\* return nil
ChannelCloseIncoming(t) ==
    /\ At(t, "Channel.Close", "Close.incoming")
    /\ IF channel[pc[t].s].incoming > 0
       THEN /\ channel' = [channel EXCEPT ![pc[t].s].incoming = @ + 1]
            /\ Panic(t)
            /\ UNCHANGED ret
       ELSE /\ channel' = [channel EXCEPT ![pc[t].s].incoming = @ + 1,
                                          ![pc[t].s].onceDone = TRUE]
            /\ Return(t, "nil")
            /\ UNCHANGED panicked
    /\ UNCHANGED <<hub, session, obs, nenv, nmsg, transport, now, http, ctx, stream>>

\* InProcessChannel.Close, lines 70 and 79: closeOnce.Do returns to a later
\* caller when the first call of the function has returned
ChannelCloseReturn(t) ==
    /\ At(t, "Channel.Close", "Once.wait")
    /\ channel[pc[t].s].onceDone
    /\ Return(t, "nil")
    /\ UNCHANGED <<hub, session, obs, nenv, nmsg, panicked, transport, channel,
                   now, http, ctx, stream>>

\* a transport built with the default configuration on a hub with one
\* handler registered, not started yet
InitTransport ==
    /\ hub = [NewHub EXCEPT !.handlers[P_ws] = "A",
                            !.onSessionCreated = TRUE,
                            !.onSessionDestroyed = TRUE]
    /\ session = [i \in SessIdx |-> NoSession]
    /\ pc = [t \in Threads2 |-> Idle]
    /\ ret = [t \in Threads2 |-> NoRet]
    /\ obs = [i \in SessIdx |-> NoObs]
    /\ nenv = 0
    /\ nmsg = 0
    /\ panicked = FALSE
    /\ transport = NewInProcessTransport(SendQueueCap)
    /\ channel = [i \in SessIdx |-> NoChannel]
    /\ now = 0
    /\ http = NoHttp
    /\ ctx = Background
    /\ stream = NoStream

\* Start, Stop, HandleRequest and OpenChannel called by two goroutines
NextTransport ==
    \/ TransportStart
    \/ \E t \in DOMAIN pc : TransportStop(t)
    \/ \E t \in DOMAIN pc : TransportHandleRequest(t)
    \/ \E t \in DOMAIN pc : TransportHandleRequestAdapter(t)
    \/ \E t \in DOMAIN pc, u \in HubUrls : TransportOpenChannel(t, u)
    \/ \E t \in DOMAIN pc, h \in Handlers \cup {NoHandler} : OpenChannelConnect(t, h)
    \/ \E t \in DOMAIN pc : HubConnectInsert(t)
    \/ \E t \in DOMAIN pc : HubOnConnect(t, TRUE)
    \/ \E t \in DOMAIN pc : HubConnectCreated(t)
    \/ \E t \in DOMAIN pc : TransportOpenChannelWrap(t)
    \/ \E t \in DOMAIN pc, s \in SessIdx \cup {0} :
          At(t, "Transport.Stop", "Stop.Close") /\ HubClose(t, s)
    \/ \E t \in DOMAIN pc, s \in SessIdx \cup {0} : HubDestroyed(t, s)
    \/ \E t \in DOMAIN pc : SessionCloseLatch(t)
    \/ \E t \in DOMAIN pc : SessionCloseChan(t)
    \/ \E t \in DOMAIN pc : SessionCloseOnClose(t)

SpecTransport == InitTransport /\ [][NextTransport]_vars

\* a started transport on which one OpenChannel("/ws/chat") has returned a
\* channel
InitOpened ==
    /\ hub = [NewHub EXCEPT !.handlers[P_ws] = "A",
                            !.onSessionCreated = TRUE,
                            !.onSessionDestroyed = TRUE,
                            !.counter = 1,
                            !.sessions[generateSessionID(1)] = 1]
    /\ session = [i \in SessIdx |-> IF i = 1 THEN NewSession(generateSessionID(1), U_chat, "A")
                                            ELSE NoSession]
    /\ pc = [t \in Threads2 |-> Idle]
    /\ ret = [t \in Threads2 |-> NoRet]
    /\ obs = [i \in SessIdx |->
                IF i = 1
                THEN [NoObs EXCEPT !.held = TRUE, !.OnConnect = 1, !.OnConnectOf = "A",
                                   !.accepted = TRUE, !.created = 1, !.connectRet = "session"]
                ELSE NoObs]
    /\ nenv = 0
    /\ nmsg = 0
    /\ panicked = FALSE
    /\ transport = [NewInProcessTransport(SendQueueCap) EXCEPT !.running = TRUE]
    /\ channel = [i \in SessIdx |-> IF i = 1 THEN newInProcessChannel(SendQueueCap)
                                            ELSE NoChannel]
    /\ now = 0
    /\ http = NoHttp
    /\ ctx = Background
    /\ stream = NoStream

\* the channel written to and closed by two goroutines
NextChannel ==
    \/ \E t \in DOMAIN pc, s \in SessIdx : ChannelSend(t, s)
    \/ \E t \in DOMAIN pc, id \in CallerIds : TransportSendToChannel(t, id)
    \/ \E t \in DOMAIN pc : CalledSendCheck(t)
    \/ \E t \in DOMAIN pc : CalledSendSelect(t)
    \/ \E s \in SessIdx : Drain(s)
    \/ \E t \in DOMAIN pc, s \in SessIdx : ChannelClose(t, s)
    \/ \E t \in DOMAIN pc : ChannelCloseDone(t)
    \/ \E t \in DOMAIN pc : ChannelCloseIncoming(t)
    \/ \E t \in DOMAIN pc : ChannelCloseReturn(t)
    \/ \E t \in DOMAIN pc, s \in SessIdx : CallSessionClose(t, s)
    \/ \E t \in DOMAIN pc : SessionCloseLatch(t)
    \/ \E t \in DOMAIN pc : SessionCloseChan(t)
    \/ \E t \in DOMAIN pc : SessionCloseOnClose(t)

SpecChannel == InitOpened /\ [][NextChannel]_vars

\* the channel and its session closed by two goroutines, any number of times
NextChannelClose ==
    \/ \E t \in DOMAIN pc, s \in SessIdx : ChannelClose(t, s)
    \/ \E t \in DOMAIN pc : ChannelCloseDone(t)
    \/ \E t \in DOMAIN pc : ChannelCloseIncoming(t)
    \/ \E t \in DOMAIN pc : ChannelCloseReturn(t)
    \/ \E t \in DOMAIN pc, s \in SessIdx : CallSessionClose(t, s)
    \/ \E t \in DOMAIN pc : SessionCloseLatch(t)
    \/ \E t \in DOMAIN pc : SessionCloseChan(t)
    \/ \E t \in DOMAIN pc : SessionCloseOnClose(t)

SpecChannelClose == InitOpened /\ [][NextChannelClose]_vars

\* the steps by which goroutine t goes on with the operation it is in; the
\* scheduler lets every goroutine that can run do so
Progress(t) ==
    \/ HubConnectWithIDLock(t)
    \/ HubConnectWithIDInsert(t)
    \/ \E ok \in BOOLEAN : HubOnConnect(t, ok)
    \/ HubConnectRemove(t)
    \/ HubConnectCreated(t)
    \/ \E s \in SessIdx \cup {0} : HubDestroyed(t, s)
    \/ SessionCloseLatch(t)
    \/ SessionCloseChan(t)
    \/ SessionCloseOnClose(t)
    \/ ChannelCloseDone(t)
    \/ ChannelCloseIncoming(t)
    \/ ChannelCloseReturn(t)

\* the session of an open channel closed by every path there is: Session.Close,
\* Hub.Disconnect, Hub.Close, ConnectWithID under its id, and Channel.Close
NextChannelLive ==
    \/ \E t \in DOMAIN pc, id \in CallerIds, h \in Handlers \cup {NoHandler} :
          HubConnectWithIDFind(t, id, U_chat, h)
    \/ \E t \in DOMAIN pc, id \in CallerIds : HubDisconnect(t, id)
    \/ \E t \in DOMAIN pc, s \in SessIdx \cup {0} : HubClose(t, s)
    \/ \E t \in DOMAIN pc, s \in SessIdx : CallSessionClose(t, s)
    \/ \E t \in DOMAIN pc, s \in SessIdx : ChannelClose(t, s)
    \/ \E t \in DOMAIN pc : Progress(t)

\* calls are made when the callers choose; a call that has begun goes on
SpecChannelLive ==
    /\ InitOpened
    /\ [][NextChannelLive]_vars
    /\ \A t \in Threads2 : WF_vars(Progress(t))

(***************************************************************************)
(* InProcessChannel.Reply (inprocess_channel.go, lines 123-127) next to     *)
(* Session.Reply on the channel's session.                                 *)
(***************************************************************************)
\* InProcessChannel.Reply, lines 124-126: the message is built with the
\* request id and handed to c.Send (lines 48-56); obs.replies records the
\* envelope, the id and the entry that was pending at the call
ChannelReply(t, s, r) ==
    /\ IsIdle(t)
    /\ channel[s].alloc
    /\ nenv < MaxEnvelopes
    /\ nenv' = nenv + 1
    /\ obs' = [obs EXCEPT ![s].replies =
                  @ \cup {[env |-> [by |-> t, n |-> nenv + 1], rid |-> r,
                           entry |-> session[s].pending[r]]}]
    /\ IF channel[s].closed \/ session[s].closed
       THEN /\ pc' = [pc EXCEPT ![t] = Idle]
            /\ ret' = [ret EXCEPT ![t] = [NoRet EXCEPT !.op = "Channel.Reply", !.s = s,
                                                      !.rid = r,
                                                      !.val = "ErrChannelClosed"]]
       ELSE /\ pc' = [pc EXCEPT ![t] =
                        [Idle EXCEPT !.op = "Channel.Reply", !.step = "Called.check",
                                     !.s = s, !.rid = r,
                                     !.env = [by |-> t, n |-> nenv + 1]]]
            /\ UNCHANGED ret
    /\ UNCHANGED <<hub, session, nmsg, panicked, transport, channel, now, http, ctx, stream>>

\* requests tracked on the session and answered through either Reply
NextChannelReply ==
    \/ \E t \in Threads1, s \in SessIdx, d \in TrackedFrames : SessionHandleMessage(t, s, d)
    \/ \E t \in DOMAIN pc : SessionOnMessage(t, "nil")
    \/ \E t \in Threads1, s \in SessIdx, r \in RequestIds : SessionReply(t, s, r)
    \/ \E t \in DOMAIN pc : SessionReplySend(t)
    \/ \E t \in DOMAIN pc : SessionSendSelect(t)
    \/ \E t \in Threads1, s \in SessIdx, r \in RequestIds : ChannelReply(t, s, r)
    \/ \E t \in DOMAIN pc : CalledSendCheck(t)
    \/ \E t \in DOMAIN pc : CalledSendSelect(t)
    \/ \E s \in SessIdx : Drain(s)

SpecChannelReply == InitOpened /\ [][NextChannelReply]_vars

(***************************************************************************)
(* Inbound delivery: InProcessChannel.deliverMessage (inprocess_channel.go, *)
(* lines 130-144) and the select of LoopbackChannel.readLoop               *)
(* (loopback_channel.go, lines 171-177), whose Close sets closed and       *)
(* closes done and incoming in the same order, with conn.Close where       *)
(* session.Close stands.  A send on a closed channel panics, inside a      *)
(* select as well, and counts as a case that is ready.                     *)
(***************************************************************************)
\* deliverMessage, lines 131-136: closed is read under closeMu.RLock
ChannelDeliver(t, s) ==
    /\ IsIdle(t)
    /\ channel[s].alloc
    /\ nmsg <= SendQueueCap
    /\ nmsg' = nmsg + 1
    /\ IF channel[s].closed
       THEN /\ pc' = [pc EXCEPT ![t] = Idle]
            /\ ret' = [ret EXCEPT ![t] = [NoRet EXCEPT !.op = "Channel.deliverMessage",
                                                      !.val = "false", !.s = s,
                                                      !.env = [by |-> t, n |-> nmsg + 1]]]
       ELSE /\ pc' = [pc EXCEPT ![t] = [Idle EXCEPT !.op = "Channel.deliverMessage",
                                                    !.step = "deliverMessage.select",
                                                    !.s = s,
                                                    !.env = [by |-> t, n |-> nmsg + 1]]]
            /\ UNCHANGED ret
    /\ UNCHANGED <<hub, session, obs, nenv, panicked, transport, channel, now, http,
                   ctx, stream>>

\* deliverMessage, lines 138-143: select { case c.incoming <- msg: return
\* true; default: return false }
ChannelDeliverSelect(t) ==
    /\ At(t, "Channel.deliverMessage", "deliverMessage.select")
    /\ LET s == pc[t].s
       IN  IF channel[s].incoming > 0
           THEN /\ Panic(t)
                /\ UNCHANGED <<channel, ret>>
           ELSE IF Len(channel[s].queue) < channel[s].bufferSize
           THEN /\ channel' = [channel EXCEPT ![s].queue = Append(@, pc[t].env)]
                /\ Return(t, "true")
                /\ UNCHANGED panicked
           ELSE /\ Return(t, "false")
                /\ UNCHANGED <<channel, panicked>>
    /\ UNCHANGED <<hub, session, obs, nenv, nmsg, transport, now, http, ctx, stream>>

\* readLoop, lines 141-169: ReadJSON has returned a frame and the message is
\* built; ReadJSON fails once conn.Close has been called
ReadLoopRead(t, s) ==
    /\ IsIdle(t)
    /\ channel[s].alloc
    /\ ~channel[s].closed
    /\ nmsg <= SendQueueCap
    /\ nmsg' = nmsg + 1
    /\ pc' = [pc EXCEPT ![t] = [Idle EXCEPT !.op = "Channel.readLoop",
                                            !.step = "readLoop.select",
                                            !.s = s,
                                            !.env = [by |-> t, n |-> nmsg + 1]]]
    /\ UNCHANGED <<hub, session, ret, obs, nenv, panicked, transport, channel, now, http,
                   ctx, stream>>

\* readLoop, lines 171-177: select { case c.incoming <- msg: ; case <-c.done:
\* return; default: }; the loop then reads the next frame
ReadLoopSelect(t) ==
    /\ At(t, "Channel.readLoop", "readLoop.select")
    /\ LET s == pc[t].s
           sendReady == channel[s].incoming > 0
                           \/ Len(channel[s].queue) < channel[s].bufferSize
           doneReady == channel[s].done > 0
       IN  \/ /\ sendReady
              /\ IF channel[s].incoming > 0
                 THEN /\ Panic(t)
                      /\ UNCHANGED <<channel, ret>>
                 ELSE /\ channel' = [channel EXCEPT ![s].queue = Append(@, pc[t].env)]
                      /\ Return(t, "sent")
                      /\ UNCHANGED panicked
           \/ /\ doneReady
              /\ Return(t, "done")
              /\ UNCHANGED <<channel, panicked>>
           \/ /\ ~sendReady /\ ~doneReady
              /\ Return(t, "dropped")
              /\ UNCHANGED <<channel, panicked>>
    /\ UNCHANGED <<hub, session, obs, nenv, nmsg, transport, now, http, ctx, stream>>

\* msg := <-ch.Receive() by the single reader of the channel
ChannelReceive(s) ==
    /\ ~panicked
    /\ channel[s].queue /= <<>>
    /\ channel' = [channel EXCEPT ![s].queue = Tail(@),
                                  ![s].received = Append(@, Head(channel[s].queue))]
    /\ UNCHANGED <<hub, session, pc, ret, obs, nenv, nmsg, panicked, transport, now, http,
                   ctx, stream>>

\* one goroutine delivers while another closes the channel and the reader
\* receives
NextDeliver ==
    \/ \E t \in Threads1, s \in SessIdx : ChannelDeliver(t, s)
    \/ \E t \in DOMAIN pc : ChannelDeliverSelect(t)
    \/ \E t \in Threads1, s \in SessIdx : ReadLoopRead(t, s)
    \/ \E t \in DOMAIN pc : ReadLoopSelect(t)
    \/ \E s \in SessIdx : ChannelReceive(s)
    \/ \E s \in SessIdx : ChannelClose("t2", s)
    \/ \E t \in DOMAIN pc : ChannelCloseDone(t)
    \/ \E t \in DOMAIN pc : ChannelCloseIncoming(t)
    \/ \E t \in DOMAIN pc : ChannelCloseReturn(t)
    \/ \E t \in DOMAIN pc : SessionCloseLatch(t)
    \/ \E t \in DOMAIN pc : SessionCloseChan(t)
    \/ \E t \in DOMAIN pc : SessionCloseOnClose(t)

SpecDeliver == InitOpened /\ [][NextDeliver]_vars

(***************************************************************************)
(* InProcessChannel.SendStream (inprocess_channel.go, lines 99-115).       *)
(* LoopbackChannel.SendStream (loopback_channel.go, lines 118-134) is the  *)
(* same loop. The caller owns the context and the stream: it puts          *)
(* messages on the stream, closes it and cancels the context when it       *)
(* chooses. A stream holds at most one message that waits to be received.  *)
(***************************************************************************)
\* stream <- msg by the caller, goroutine t
StreamPut(t) ==
    /\ ~panicked
    /\ ~stream.closed
    /\ stream.buf = <<>>
    /\ nenv < MaxEnvelopes
    /\ nenv' = nenv + 1
    /\ stream' = [stream EXCEPT !.buf = <<[by |-> t, n |-> nenv + 1]>>]
    /\ UNCHANGED <<hub, session, pc, ret, obs, nmsg, panicked, transport, channel, now,
                   http, ctx>>

\* close(stream) by the caller
StreamClose ==
    /\ ~panicked
    /\ ~stream.closed
    /\ stream' = [stream EXCEPT !.closed = TRUE]
    /\ UNCHANGED <<hub, session, pc, ret, obs, nenv, nmsg, panicked, transport, channel,
                   now, http, ctx>>

\* cancel() of the context by the caller: ctx.Done() is closed
Cancel ==
    /\ ~panicked
    /\ ~ctx.done
    /\ ctx' = [ctx EXCEPT !.done = TRUE]
    /\ UNCHANGED <<hub, session, pc, ret, obs, nenv, nmsg, panicked, transport, channel,
                   now, http, stream>>

\* c.SendStream(ctx, stream) is called
ChannelSendStream(t, s) ==
    /\ IsIdle(t)
    /\ channel[s].alloc
    /\ pc' = [pc EXCEPT ![t] = [Idle EXCEPT !.op = "Channel.SendStream",
                                            !.step = "SendStream.select", !.s = s]]
    /\ UNCHANGED <<hub, session, ret, obs, nenv, nmsg, panicked, transport, channel,
                   now, http, ctx, stream>>

SendStreamSelect_EmptyIsDone(t) ==
    /\ At(t, "Channel.SendStream", "SendStream.select")
    /\ \/ /\ ctx.done
          /\ Return(t, "ctx.Err")
          /\ UNCHANGED stream
       \/ /\ channel[pc[t].s].done > 0
          /\ Return(t, "ErrChannelClosed")
          /\ UNCHANGED stream
       \/ /\ stream.buf /= <<>>
          /\ stream' = [stream EXCEPT !.buf = Tail(@)]
          /\ pc' = [pc EXCEPT ![t].step = "SendStream.Send",
                              ![t].env = Head(stream.buf),
                              ![t].cl = ctx.done]
          /\ UNCHANGED ret
       \/ /\ stream.buf = <<>>
          /\ Return(t, "nil")
          /\ UNCHANGED stream
    /\ UNCHANGED <<hub, session, obs, nenv, nmsg, panicked, transport, channel,
                   now, http, ctx>>

\* SendStream, lines 101-109: select over ctx.Done(), c.done and stream. When
\* several cases can proceed, select takes any one of them; when none can,
\* the goroutine waits. pc[t].cl records whether the context was cancelled
\* when a message was taken from the stream.
SendStreamSelect(t) ==
    /\ At(t, "Channel.SendStream", "SendStream.select")
    /\ \/ /\ ctx.done
          /\ Return(t, "ctx.Err")
          /\ UNCHANGED stream
       \/ /\ channel[pc[t].s].done > 0
          /\ Return(t, "ErrChannelClosed")
          /\ UNCHANGED stream
       \/ /\ stream.buf /= <<>>
          /\ stream' = [stream EXCEPT !.buf = Tail(@)]
          /\ pc' = [pc EXCEPT ![t].step = "SendStream.Send",
                              ![t].env = Head(stream.buf),
                              ![t].cl = ctx.done]
          /\ UNCHANGED ret
       \/ /\ stream.buf = <<>>
          /\ stream.closed
          /\ Return(t, "nil")
          /\ UNCHANGED stream
    /\ UNCHANGED <<hub, session, obs, nenv, nmsg, panicked, transport, channel,
                   now, http, ctx>>

\* SendStream, line 110, and InProcessChannel.Send, lines 49-56: refuse when
\* the channel or its session is closed, then call Session.Send
SendStreamSend(t) ==
    /\ At(t, "Channel.SendStream", "SendStream.Send")
    /\ IF channel[pc[t].s].closed \/ session[pc[t].s].closed
       THEN Return(t, "ErrChannelClosed")
       ELSE /\ pc' = [pc EXCEPT ![t].step = "Called.check"]
            /\ UNCHANGED ret
    /\ UNCHANGED <<hub, session, obs, nenv, nmsg, panicked, transport, channel,
                   now, http, ctx, stream>>

\* one channel; one goroutine runs SendStream on it, the other feeds the
\* stream, cancels and closes; the bridge drains the queue
NextStream ==
    \/ StreamPut("t2")
    \/ StreamClose
    \/ Cancel
    \/ \E t \in Threads1, s \in SessIdx : ChannelSendStream(t, s)
    \/ \E t \in DOMAIN pc : SendStreamSelect(t)
    \/ \E t \in DOMAIN pc : SendStreamSend(t)
    \/ \E t \in DOMAIN pc : CalledSendCheck(t)
    \/ \E t \in DOMAIN pc : CalledSendSelect(t)
    \/ \E s \in SessIdx : Drain(s)
    \/ \E s \in SessIdx : ChannelClose("t2", s)
    \/ \E t \in DOMAIN pc : ChannelCloseDone(t)
    \/ \E t \in DOMAIN pc : ChannelCloseIncoming(t)
    \/ \E t \in DOMAIN pc : ChannelCloseReturn(t)
    \/ \E t \in DOMAIN pc : SessionCloseLatch(t)
    \/ \E t \in DOMAIN pc : SessionCloseChan(t)
    \/ \E t \in DOMAIN pc : SessionCloseOnClose(t)

SpecStream == InitOpened /\ [][NextStream]_vars

\* a transport configured with any buffer size, not started yet, used by one
\* goroutine
InitBuffer ==
    /\ hub = [NewHub EXCEPT !.handlers[P_ws] = "A",
                            !.onSessionCreated = TRUE,
                            !.onSessionDestroyed = TRUE]
    /\ session = [i \in SessIdx |-> NoSession]
    /\ pc = [t \in Threads1 |-> Idle]
    /\ ret = [t \in Threads1 |-> NoRet]
    /\ obs = [i \in SessIdx |-> NoObs]
    /\ nenv = 0
    /\ nmsg = 0
    /\ panicked = FALSE
    /\ \E size \in BufferSizes : transport = NewInProcessTransport(size)
    /\ channel = [i \in SessIdx |-> NoChannel]
    /\ now = 0
    /\ http = NoHttp
    /\ ctx = Background
    /\ stream = NoStream

\* channels opened and written to, nothing drained
NextBuffer ==
    \/ TransportStart
    \/ \E t \in DOMAIN pc, u \in HubUrls : TransportOpenChannel(t, u)
    \/ \E t \in DOMAIN pc, h \in Handlers \cup {NoHandler} : OpenChannelConnect(t, h)
    \/ \E t \in DOMAIN pc : HubConnectInsert(t)
    \/ \E t \in DOMAIN pc : HubOnConnect(t, TRUE)
    \/ \E t \in DOMAIN pc : HubConnectCreated(t)
    \/ \E t \in DOMAIN pc : TransportOpenChannelWrap(t)
    \/ \E t \in DOMAIN pc, s \in SessIdx : ChannelSend(t, s)
    \/ \E t \in DOMAIN pc : CalledSendCheck(t)
    \/ \E t \in DOMAIN pc : CalledSendSelect(t)

SpecBuffer == InitBuffer /\ [][NextBuffer]_vars

(***************************************************************************)
(* Hub.Broadcast and Hub.BroadcastToURL (src/unnamed/part_004, 196-228).   *)
(***************************************************************************)
\* the loop "for _, s := range sessions { s.Send(envelope) }": go on with the
\* next session of the snapshot, or return
BroadcastNext(t, next) ==
    IF pc[t].snap = {}
    THEN next = 0 /\ Done(t)
    ELSE /\ next \in pc[t].snap
         /\ pc' = [pc EXCEPT ![t].step = "Broadcast.check", ![t].s = next,
                             ![t].snap = @ \ {next}]
         /\ UNCHANGED ret

\* the snapshot taken under the read lock, and the first Send
BroadcastBegin(t, op, pattern, snap, first) ==
    /\ IsIdle(t)
    /\ Unlocked
    /\ nenv < MaxEnvelopes
    /\ nenv' = nenv + 1
    /\ IF snap = {}
       THEN first = 0 /\ UNCHANGED pc
       ELSE /\ first \in snap
            /\ pc' = [pc EXCEPT ![t] =
                        [Idle EXCEPT !.op = op, !.step = "Broadcast.check",
                                     !.url = pattern, !.s = first,
                                     !.snap = snap \ {first},
                                     !.env = [by |-> t, n |-> nenv + 1]]]
    /\ UNCHANGED <<hub, session, ret, obs, nmsg, panicked, transport, channel,
                   now, http, ctx, stream>>

\* Hub.Broadcast, lines 197-202: every registered session
HubBroadcast(t, first) ==
    BroadcastBegin(t, "Hub.Broadcast", <<>>,
                   {hub.sessions[id] : id \in AllIds} \ {0}, first)

\* Hub.BroadcastToURL, lines 216-223: the registered sessions whose URL
\* matches the pattern
BroadcastToURLSnapshot(pattern) ==
    {s \in {hub.sessions[id] : id \in AllIds} \ {0} : matchURL(session[s].URL, pattern)}

HubBroadcastToURL(t, pattern, first) ==
    BroadcastBegin(t, "Hub.BroadcastToURL", pattern, BroadcastToURLSnapshot(pattern), first)

\* Session.Send, lines 85-90, called from the loop: a closed session is
\* skipped
BroadcastSendCheck(t, next) ==
    /\ AtStep(t, "Broadcast.check")
    /\ IF session[pc[t].s].closed
       THEN BroadcastNext(t, next)
       ELSE /\ next = 0
            /\ pc' = [pc EXCEPT ![t].step = "Broadcast.select"]
            /\ UNCHANGED ret
    /\ UNCHANGED <<hub, session, obs, nenv, nmsg, panicked, transport, channel,
                   now, http, ctx, stream>>

\* Session.Send, lines 92-98, called from the loop: the result is dropped
BroadcastSendSelect(t, next) ==
    /\ AtStep(t, "Broadcast.select")
    /\ LET s == pc[t].s
       IN  IF session[s].chanClosed
           THEN /\ next = 0
                /\ Panic(t)
                /\ UNCHANGED <<session, obs, ret>>
           ELSE IF Len(session[s].SendChan) < SendQueueCap
           THEN /\ session' = [session EXCEPT ![s].SendChan = Append(@, pc[t].env)]
                /\ obs' = [obs EXCEPT ![s].okLog = Append(@, pc[t].env)]
                /\ BroadcastNext(t, next)
                /\ UNCHANGED panicked
           ELSE /\ BroadcastNext(t, next)
                /\ UNCHANGED <<session, obs, panicked>>
    /\ UNCHANGED <<hub, nenv, nmsg, transport, channel, now, http, ctx, stream>>

\* the URL a session of the initial registry was connected with
UrlOf(i) == IF i = 1 THEN U_chat ELSE IF i = 2 THEN U_api ELSE U_room

\* a hub on which Handle("/ws/", A), SetDefaultHandler(D) and one accepted
\* Connect per session have returned
InitBroadcast ==
    /\ hub = [NewHub EXCEPT !.handlers[P_ws] = "A",
                            !.defaultHandler = "D",
                            !.counter = MaxSessions,
                            !.sessions = [id \in AllIds |->
                                            IF id[1] = "ws" /\ id[2] \in SessIdx
                                            THEN id[2] ELSE 0]]
    /\ session = [i \in SessIdx |->
                    NewSession(generateSessionID(i), UrlOf(i),
                               IF UrlOf(i) = U_api THEN "D" ELSE "A")]
    /\ pc = [t \in Threads2 |-> Idle]
    /\ ret = [t \in Threads2 |-> NoRet]
    /\ obs = [i \in SessIdx |->
                [NoObs EXCEPT !.held = TRUE, !.OnConnect = 1,
                              !.OnConnectOf = IF UrlOf(i) = U_api THEN "D" ELSE "A",
                              !.accepted = TRUE, !.connectRet = "session"]]
    /\ nenv = 0
    /\ nmsg = 0
    /\ panicked = FALSE
    /\ transport = NewInProcessTransport(SendQueueCap)
    /\ channel = [i \in SessIdx |-> NoChannel]
    /\ now = 0
    /\ http = NoHttp
    /\ ctx = Background
    /\ stream = NoStream

BroadcastPatterns == {P_ws, U_api}

NextBroadcast ==
    \/ \E t \in DOMAIN pc, s \in SessIdx \cup {0} : HubBroadcast(t, s)
    \/ \E t \in DOMAIN pc, p \in BroadcastPatterns, s \in SessIdx \cup {0} :
          HubBroadcastToURL(t, p, s)
    \/ \E t \in DOMAIN pc, s \in SessIdx \cup {0} : BroadcastSendCheck(t, s)
    \/ \E t \in DOMAIN pc, s \in SessIdx \cup {0} : BroadcastSendSelect(t, s)
    \/ \E t \in DOMAIN pc, s \in SessIdx : CallSessionClose(t, s)
    \/ \E t \in DOMAIN pc : SessionCloseLatch(t)
    \/ \E t \in DOMAIN pc : SessionCloseChan(t)
    \/ \E t \in DOMAIN pc : SessionCloseOnClose(t)

SpecBroadcast == InitBroadcast /\ [][NextBroadcast]_vars

(***************************************************************************)
(* URL matching: sessions connected with any of a few URLs, one goroutine  *)
(* broadcasting to a pattern.                                              *)
(***************************************************************************)
\* "/ws"
U_ws == <<"/", "w", "s">>
\* "/a?r=x://h/ws/c"
U_query == <<"/", "a", "?", "r", "=", "x", ":", "/", "/", "h", "/", "w", "s", "/", "c">>

MatchUrls == {U_chat, U_ws, U_query, U_full}
MatchPatterns == {P_ws, U_ws, U_chat}

\* Hub.Connect, lines 77-84: the handler a session connected with url gets on
\* a hub with Handle("/ws/", A) and SetDefaultHandler(D)
HandlerAt(hs, url) ==
    IF findHandler(hs, url) = {NoHandler} THEN "D" ELSE CHOOSE h \in findHandler(hs, url) : TRUE

\* a hub on which Handle("/ws/", A), SetDefaultHandler(D) and one accepted
\* Connect(url) per session have returned
InitMatch ==
    \E urlOf \in [SessIdx -> MatchUrls] :
        /\ hub = [NewHub EXCEPT !.handlers[P_ws] = "A",
                                !.defaultHandler = "D",
                                !.counter = MaxSessions,
                                !.sessions = [id \in AllIds |->
                                                IF id[1] = "ws" /\ id[2] \in SessIdx
                                                THEN id[2] ELSE 0]]
        /\ session = [i \in SessIdx |->
                        NewSession(generateSessionID(i), urlOf[i],
                                   HandlerAt([p \in {P_ws} |-> "A"], urlOf[i]))]
        /\ pc = [t \in Threads1 |-> Idle]
        /\ ret = [t \in Threads1 |-> NoRet]
        /\ obs = [i \in SessIdx |->
                    [NoObs EXCEPT !.held = TRUE, !.OnConnect = 1,
                                  !.OnConnectOf = HandlerAt([p \in {P_ws} |-> "A"], urlOf[i]),
                                  !.accepted = TRUE, !.connectRet = "session"]]
        /\ nenv = 0
        /\ nmsg = 0
        /\ panicked = FALSE
        /\ transport = NewInProcessTransport(SendQueueCap)
        /\ channel = [i \in SessIdx |-> NoChannel]
        /\ now = 0
        /\ http = NoHttp
        /\ ctx = Background
        /\ stream = NoStream

NextMatch ==
    \/ \E t \in DOMAIN pc, p \in MatchPatterns, s \in SessIdx \cup {0} :
          HubBroadcastToURL(t, p, s)
    \/ \E t \in DOMAIN pc, s \in SessIdx \cup {0} : BroadcastSendCheck(t, s)
    \/ \E t \in DOMAIN pc, s \in SessIdx \cup {0} : BroadcastSendSelect(t, s)
    \/ \E s \in SessIdx : Drain(s)

SpecMatch == InitMatch /\ [][NextMatch]_vars

(***************************************************************************)
(* Reconnection properties.                                                *)
(***************************************************************************)
\* goroutine t is in ConnectWithID and found the session old registered under
\* its id when it took the lock
Replacing(t, old) ==
    /\ pc[t].op = "Hub.ConnectWithID"
    /\ pc[t].step \in {"ConnectWithID.insert", "Connect.OnConnect", "Connect.created"}
    /\ old /= 0
    /\ pc[t].cs = old

CallbackInvoked(s) ==
    \/ obs'[s].OnConnect /= obs[s].OnConnect
    \/ obs'[s].OnMessage /= obs[s].OnMessage
    \/ obs'[s].OnClose /= obs[s].OnClose

\* C12: no goroutine invokes a handler callback while it holds the registry
\* lock of the hub (the session lock is released inside Session.Close before
\* OnClose).
C12_NoCallbackUnderLock ==
    [][\A t \in DOMAIN pc, s \in SessIdx :
          (pc'[t] /= pc[t] /\ CallbackInvoked(s)) => hub.sessionsMu /= t]_vars

HubHandleMessageReturns(t, val) ==
    /\ pc'[t].op = "idle"
    /\ ret'[t].op = "Hub.HandleMessage"
    /\ ret'[t].val = val

\* C14: HandleMessage(id, data) returns ErrSessionNotFound exactly when the
\* lookup finds no session under id, and ErrSessionClosed exactly when the
\* session found is closed at the IsClosed test; neither return invokes
\* OnMessage or touches pending; past both tests the result is that of
\* Session.HandleMessage: the parse error for an undecodable frame, and
\* otherwise what OnMessage answers, after the request id was tracked.
C14_HubHandleMessageErrors ==
    [][\A t \in DOMAIN pc :
          /\ (HubHandleMessageReturns(t, "ErrSessionNotFound") /\ ret'[t] /= ret[t])
                => /\ hub.sessions[ret'[t].id] = 0
                   /\ session' = session /\ obs' = obs
          /\ (pc[t].op = "idle" /\ pc'[t].op = "Hub.HandleMessage")
                => hub.sessions[pc'[t].id] = pc'[t].s /\ pc'[t].s /= 0
          /\ (pc[t].step = "HandleMessage.IsClosed" /\ pc'[t] /= pc[t])
                => /\ HubHandleMessageReturns(t, "ErrSessionClosed")
                         <=> session[pc[t].s].closed
                   /\ session' = session /\ obs' = obs
          /\ (HubHandleMessageReturns(t, "ErrSessionClosed") /\ pc[t].op = "Hub.HandleMessage")
                => pc[t].step = "HandleMessage.IsClosed"
          /\ (pc[t].step = "HandleMessage.parse" /\ pc'[t] /= pc[t])
                => /\ HubHandleMessageReturns(t, "ErrParse") <=> ~pc[t].data.valid
                   /\ pc[t].data.valid
                         => /\ pc'[t].step = "HandleMessage.OnMessage"
                            /\ pc[t].data.request_id /= ""
                                  => GetPendingRequest(session'[pc[t].s].pending,
                                                       pc[t].data.request_id) = pc[t].req
                   /\ obs' = obs
          /\ (pc[t].op = "Hub.HandleMessage" /\ pc[t].step = "HandleMessage.OnMessage"
                /\ pc'[t] /= pc[t])
                => /\ ret'[t].val \in OnMessageResults
                   /\ obs'[pc[t].s].OnMessage = obs[pc[t].s].OnMessage + 1]_vars

C14_Witness ==
    \E t, u \in DOMAIN pc :
        /\ ret[t].op = "Hub.HandleMessage" /\ ret[t].val = "ErrSessionClosed"
        /\ ret[u].op = "Hub.HandleMessage" /\ ret[u].val = "envelope"
        /\ obs[ret[u].s].OnMessage = 1

(***************************************************************************)
(* Hub.Send properties.                                                    *)
(***************************************************************************)
\* C15: Hub.Send(id, env) returns ErrSessionNotFound only when no session is
\* registered under id, ErrSessionClosed when the session is closed, and,
\* when the session is open and its queue is full, an error that is not
\* ErrSessionClosed.
C15_SendErrorKinds ==
    [][\A t \in DOMAIN pc :
          /\ (pc'[t].op = "idle" /\ ret'[t] /= ret[t] /\ ret'[t].op = "Hub.Send"
                /\ ret'[t].val = "ErrSessionNotFound")
                => hub.sessions[ret'[t].id] = 0
          /\ (pc[t].op = "Hub.Send" /\ pc[t].step = "Called.check" /\ pc'[t] /= pc[t]
                /\ session[pc[t].s].closed)
                => ret'[t].val = "ErrSessionClosed"
          /\ (pc[t].op = "Hub.Send" /\ pc[t].step = "Called.select" /\ pc'[t].op = "idle"
                /\ ~session[pc[t].s].closed
                /\ Len(session[pc[t].s].SendChan) = SendQueueCap)
                => ret'[t].val \notin {"nil", "ErrSessionClosed"}]_vars

(***************************************************************************)
(* Channel and transport properties.                                       *)
(***************************************************************************)
\* goroutine t returns from a Send through a channel or the transport
ChannelSendReturns(t) ==
    /\ pc[t].op \in {"Channel.Send", "Transport.SendToChannel"}
    /\ pc'[t].op = "idle"

\* C16: Channel.Send and SendToChannel answer ErrChannelFull only for an open
\* session whose queue is full; a closed session is answered
\* ErrChannelClosed.
C16_ClosedNeverFull ==
    [][\A t \in DOMAIN pc :
          (ChannelSendReturns(t) /\ ret'[t].val = "ErrChannelFull")
             => /\ ~session[pc[t].s].closed
                /\ Len(session[pc[t].s].SendChan) = SendQueueCap]_vars

\* C17: on a channel of a transport configured with buffer size N, while
\* nothing has been drained, a Send that finds fewer than N envelopes queued
\* is accepted and a Send that finds N queued is refused with ErrChannelFull.
C17_BufferSizeBoundsQueue ==
    [][\A t \in DOMAIN pc :
          (/\ pc[t].op = "Channel.Send"
           /\ pc[t].step = "Called.select"
           /\ pc'[t].op = "idle"
           /\ obs[pc[t].s].drained = <<>>)
             => /\ Len(session[pc[t].s].SendChan) < transport.ChannelBufferSize
                      => ret'[t].val = "nil"
                /\ Len(session[pc[t].s].SendChan) = transport.ChannelBufferSize
                      => ret'[t].val = "ErrChannelFull"]_vars

\* goroutine t calls HandleRequest or OpenChannel in this step
TransportCalled(t, op) ==
    /\ pc[t].op = "idle"
    /\ \/ pc'[t].op = op
       \/ ret'[t] /= ret[t] /\ ret'[t].op = op

\* a session is created, a session is registered or the adapter is invoked
Delegated ==
    \/ transport'.handled /= transport.handled
    \/ \E s \in SessIdx : session'[s].alloc /\ ~session[s].alloc
    \/ \E id \in AllIds : hub.sessions[id] = 0 /\ hub'.sessions[id] /= 0

RegisteredSessions == {hub.sessions[id] : id \in AllIds} \ {0}

\* goroutine t takes the snapshot of Hub.Close in this step
HubCloseBegins(t) == pc[t].op = "idle" /\ pc'[t].op = "Hub.Close"

\* goroutine t is done with one session of its snapshot in this step
HubCloseFinishes(t, s) ==
    /\ pc[t].op = "Hub.Close"
    /\ pc[t].step = "destroyed"
    /\ pc[t].cs = s
    /\ pc'[t] /= pc[t]

Broadcasting(t) ==
    /\ pc[t].op \in {"Hub.Broadcast", "Hub.BroadcastToURL"}
    /\ pc'[t] /= pc[t]

\* the number of times envelope e was queued on a session with accepted log q
Occurrences(q, e) == Cardinality({i \in DOMAIN q : q[i] = e})

\* the snapshot and every Send of a broadcast are as C18 says, the crash of
\* the broadcasting goroutine apart
BroadcastStepsDeliver ==
    \A t \in DOMAIN pc :
        /\ (pc[t].op = "idle" /\ pc'[t].op = "Hub.BroadcastToURL")
              => {pc'[t].s} \cup pc'[t].snap =
                    {s \in RegisteredSessions : matchURL(session[s].URL, pc'[t].url)}
        /\ (pc[t].op = "idle" /\ pc'[t].op = "Hub.Broadcast")
              => {pc'[t].s} \cup pc'[t].snap = RegisteredSessions
        /\ Broadcasting(t)
              => /\ \A s \in SessIdx \ {pc[t].s} : session'[s] = session[s]
                 /\ pc'[t].op /= "idle" => pc'[t].env = pc[t].env
                 /\ (pc[t].step = "Broadcast.select" /\ ~session[pc[t].s].chanClosed)
                       => session'[pc[t].s].SendChan =
                             IF Len(session[pc[t].s].SendChan) < SendQueueCap
                             THEN Append(session[pc[t].s].SendChan, pc[t].env)
                             ELSE session[pc[t].s].SendChan
                 /\ pc[t].step /= "Broadcast.select" => session' = session
                 /\ (pc'[t].op = "idle" /\ ~panicked') => pc[t].snap = {}
        /\ \A s \in SessIdx :
              \A e \in Range(obs'[s].okLog) : Occurrences(obs'[s].okLog, e) = 1

\* C18: BroadcastToURL takes the registered sessions whose URL matches the
\* pattern (Broadcast: all of them) and sends the envelope once to each: it
\* is queued on every one of them that is open with room in its queue, on no
\* other session, at most once per session, and no session, full or closed,
\* stops the broadcast from reaching the others.
C18_BroadcastReachesEachOnce ==
    [][/\ BroadcastStepsDeliver
       /\ \A t \in DOMAIN pc : Broadcasting(t) => ~panicked']_vars

(***************************************************************************)
(* InProcessTransport.Stop properties.                                     *)
(***************************************************************************)
\* no Stop is in progress: no goroutine is between the latch of Stop and the
\* end of the Hub.Close it calls
StopReturned ==
    /\ ~transport.running
    /\ \A t \in DOMAIN pc : pc[t].op \notin {"Transport.Stop", "Hub.Close"}

\* C21: once Stop on a running transport has returned, and Start has not been
\* called again, the hub holds no open registered session, also when an
\* OpenChannel call was in flight while Stop ran.
C21_StoppedHubHoldsNoOpenSession ==
    StopReturned =>
        \A s \in RegisteredSessions : session[s].closed

(***************************************************************************)
(* InProcessChannel.Close properties.                                      *)
(***************************************************************************)
\* goroutine t is inside the function closeOnce runs for the channel of s
InCloseOnce(t, s) ==
    /\ pc[t].op = "Channel.Close"
    /\ pc[t].s = s
    /\ pc[t].step \in {"Close.latch", "Close.chan", "Close.OnClose", "Close.done",
                       "Close.incoming"}

\* C22: however often and from however many goroutines Close is called on a
\* channel, it calls Session.Close once, closes done and incoming once each,
\* never panics and returns nil; a caller that waits for a running Close is
\* released by it; once a Close has returned all three have happened.
C22_ChannelCloseOnce ==
    /\ \A s \in SessIdx :
          /\ channel[s].sessionClose <= 1
          /\ channel[s].done <= 1
          /\ channel[s].incoming <= 1
    /\ \A t \in DOMAIN pc :
          /\ pc[t].op = "Channel.Close" => pc[t].step /= "panic"
          /\ (pc[t].op = "Channel.Close" /\ pc[t].step = "Once.wait")
                => \/ channel[pc[t].s].onceDone
                   \/ \E u \in DOMAIN pc \ {t} : InCloseOnce(u, pc[t].s)
          /\ ret[t].op = "Channel.Close"
                => /\ ret[t].val = "nil"
                   /\ channel[ret[t].s].sessionClose = 1
                   /\ channel[ret[t].s].done = 1
                   /\ channel[ret[t].s].incoming = 1
                   /\ session[ret[t].s].closed

\* both goroutines have closed the same channel and a goroutine is closing it
\* again
C22_Witness ==
    \E s \in SessIdx :
        /\ \A t \in DOMAIN pc : ret[t].op = "Channel.Close" /\ ret[t].s = s
        /\ \E t \in DOMAIN pc : pc[t].op = "Channel.Close" /\ pc[t].step = "Once.wait"
        /\ channel[s].done = 1

\* C23: when the session of a channel that OpenChannel returned is closed, by
\* whatever path, the channel's done latch is eventually closed and its
\* incoming queue is eventually closed, so that Receive terminates.
C23_SessionCloseReachesChannel ==
    \A s \in SessIdx :
        (channel[s].alloc /\ session[s].closed)
            ~> (channel[s].done > 0 /\ channel[s].incoming > 0)

(***************************************************************************)
(* Pending-request properties.                                             *)
(***************************************************************************)
\* the envelope has been enqueued on the session: it is in SendChan or was
\* drained from it
Enqueued(s, env) ==
    env \in Range(session[s].SendChan) \cup Range(obs[s].drained)

\* Reply returned false for the envelope
ReplyFailed(env) ==
    \E t \in DOMAIN pc :
        ret[t].op = "Session.Reply" /\ ret[t].env = env /\ ret[t].val = "false"

\* C24: Reply(r, html) removes r from pending before it enqueues the reply:
\* whenever the reply envelope is in SendChan or has been drained, and
\* whenever Reply has returned false, the entry that was pending under r when
\* Reply was called is no longer in pending.
C24_ReplyClearsBeforeEnqueue ==
    \A s \in SessIdx :
        \A x \in obs[s].replies :
            (x.entry /= NoPending /\ (Enqueued(s, x.env) \/ ReplyFailed(x.env)))
                => session[s].pending[x.rid] /= x.entry

\* one reply that retired an entry is enqueued, another one that retired an
\* entry failed on the full queue
C24_Witness ==
    \E s \in SessIdx :
        \E x, y \in obs[s].replies :
            /\ x.entry /= NoPending /\ Enqueued(s, x.env)
            /\ y.entry /= NoPending /\ ReplyFailed(y.env)

\* C25: a HandleMessage whose frame parses goes on to OnMessage with the
\* request id, when there is one, recorded in pending and nothing else of
\* pending changed, OnMessage not yet invoked; a frame that does not parse
\* returns the parse error at once with pending and the handler untouched;
\* OnMessage then finds the id in pending, is invoked once and its answer is
\* what HandleMessage returns.
C25_HandleMessageTracksThenDelegates ==
    [][/\ nmsg' /= nmsg =>
            \/ \E t \in DOMAIN pc :
                  /\ pc[t].op = "idle"
                  /\ pc'[t].op = "Session.HandleMessage"
                  /\ pc'[t].step = "HandleMessage.OnMessage"
                  /\ pc'[t].data.valid
                  /\ LET s == pc'[t].s
                         r == pc'[t].data.request_id
                     IN  /\ r /= "" =>
                               /\ GetPendingRequest(session'[s].pending, r) = pc'[t].req
                               /\ \A q \in RequestIds \ {r} :
                                     session'[s].pending[q] = session[s].pending[q]
                         /\ r = "" => session'[s].pending = session[s].pending
                  /\ obs' = obs
            \/ /\ pc' = pc
               /\ \E t \in DOMAIN pc :
                     /\ ret'[t].op = "Session.HandleMessage"
                     /\ ~ret'[t].data.valid
                     /\ ret'[t].val = "ErrParse"
               /\ session' = session
               /\ obs' = obs
       /\ \A t \in DOMAIN pc :
             (/\ pc[t].op = "Session.HandleMessage"
              /\ pc[t].step = "HandleMessage.OnMessage"
              /\ pc'[t] /= pc[t])
                => LET s == pc[t].s
                       r == pc[t].data.request_id
                   IN  /\ r /= "" => session[s].pending[r] /= NoPending
                       /\ obs'[s].OnMessage = obs[s].OnMessage + 1
                       /\ ret'[t].op = "Session.HandleMessage"
                       /\ ret'[t].val = obs'[s].answer
                       /\ ret'[t].data = pc[t].data
                       /\ session' = session]_vars

\* a tracked request was answered with an envelope and another frame did not
\* parse
C25_Witness ==
    \E t, u \in DOMAIN pc :
        /\ ret[t].op = "Session.HandleMessage" /\ ret[t].val = "envelope"
        /\ ret[t].data.request_id = "r1"
        /\ session[ret[t].s].pending["r1"] /= NoPending
        /\ ret[u].op = "Session.HandleMessage" /\ ret[u].val = "ErrParse"
        /\ obs[ret[t].s].OnMessage = 1

\* C26: CleanupExpiredPending(ttl) deletes every pending entry whose age, at
\* the reading of the clock it takes under the lock, is greater than ttl, and
\* no other: an entry of age at most ttl stays as it is and no entry appears;
\* GetPendingRequest then finds none of the deleted ids; SendChan, the
\* metadata and the closed latch are left as they were.
C26_CleanupRemovesExactlyExpired ==
    [][\A t \in DOMAIN pc :
          (pc[t].op = "Session.CleanupExpiredPending" /\ pc'[t] /= pc[t])
             => LET s   == pc[t].s
                    ttl == pc[t].ttl
                IN  /\ \A r \in RequestIds :
                          LET e == session[s].pending[r]
                          IN  /\ (e /= NoPending /\ now - e.at > ttl)
                                    => /\ session'[s].pending[r] = NoPending
                                       /\ GetPendingRequest(session'[s].pending, r) = 0
                              /\ (e /= NoPending /\ now - e.at <= ttl)
                                    => session'[s].pending[r] = e
                              /\ e = NoPending => session'[s].pending[r] = NoPending
                    /\ session'[s].SendChan = session[s].SendChan
                    /\ session'[s].metadata = session[s].metadata
                    /\ session'[s].closed = session[s].closed
                    /\ session'[s].chanClosed = session[s].chanClosed]_vars

\* a request tracked under "r1" has been removed while a younger one under
\* "r2", itself of positive age, has been kept
C26_Witness ==
    \E t, u \in DOMAIN pc :
        /\ ret[t].op = "Session.HandleMessage" /\ ret[t].data.request_id = "r1"
        /\ ret[u].op = "Session.HandleMessage" /\ ret[u].data.request_id = "r2"
        /\ ret[t].s = ret[u].s
        /\ session[ret[t].s].pending["r1"] = NoPending
        /\ session[ret[t].s].pending["r2"] /= NoPending
        /\ session[ret[t].s].pending["r2"].at < now
        /\ session[ret[t].s].metadata["user"] /= NoValue

(***************************************************************************)
(* Session-id generation properties.                                       *)
(***************************************************************************)
\* goroutine t generates an id and registers its session in this step
ConnectInserts(t) ==
    /\ pc[t].op \in {"Hub.Connect", "Transport.OpenChannel"}
    /\ pc[t].step = "Connect.insert"
    /\ pc'[t].step = "Connect.OnConnect"

\* the id comes from a counter one above the old one and differs from every
\* id generated before
GeneratedFresh(t) ==
    /\ hub'.counter = hub.counter + 1
    /\ pc'[t].id = generateSessionID(hub'.counter)
    /\ \A k \in 1..hub.counter : pc'[t].id /= generateSessionID(k)
    /\ \A s \in SessIdx :
          (session[s].alloc /\ obs[s].via = "Hub.Connect") => session[s].ID /= pc'[t].id

SecretServed == http.mw = "SecretValidationMiddleware"

\* the request's path starts with one of the configured exclude prefixes
ExcludedPath(r) ==
    \E i \in DOMAIN http.excludePaths : HasPrefix(r.Path, http.excludePaths[i])

\* the request has an X-Irgo-Secret field whose value is the secret
CarriesSecret(r) == r.XIrgoSecret /= <<>> /\ r.XIrgoSecret[1] = http.secret

StackServed == http.mw = "SecurityStack"

\* C29: the per-launch secret must be included in all requests: a request to
\* an application route that does not carry the correct X-Irgo-Secret header
\* never reaches the application's handler, whatever its method; a GET of
\* /api/data without a secret or with a wrong one fails.
C29_EveryRequestNeedsSecret ==
    (StackServed /\ http.r.Path = U_data /\ ~ CarriesSecret(http.r)) =>
        (~ http.resp.next /\ http.resp.status /= 200)

\* the request just served by StrictOriginMiddleware alone, with a method
\* other than GET, HEAD and OPTIONS
OriginServed ==
    /\ http.mw = "StrictOriginMiddleware"
    /\ http.r.Method \notin {"GET", "HEAD", "OPTIONS"}

AllowedOriginSet == {http.allowedOrigins[i] : i \in DOMAIN http.allowedOrigins}

\* the request has an Origin field whose value is one of the allowed origins
OriginAllowed(r) == r.Origin /= <<>> /\ r.Origin[1] \in AllowedOriginSet

\* what the claim requires of a request that must pass, and of one that must not
Passed == http.resp = AppHandler
Refused == http.resp.status = 403 /\ ~ http.resp.next

UpgradeServed == http.mw = "WebSocketSecretMiddleware"

\* the request has an Upgrade field equal to "websocket" and a Connection
\* field containing "upgrade", both ignoring case
UpgradeRecognised(r) ==
    /\ r.Upgrade /= <<>>
    /\ ToLower(r.Upgrade[1]) = S_websocket
    /\ r.Connection /= <<>>
    /\ \E i \in 1..Len(r.Connection[1]) :
           HasPrefix(SubSeq(ToLower(r.Connection[1]), i, Len(r.Connection[1])),
                     S_upgrade)

\* C31: a request recognised as a WebSocket upgrade reaches the next handler
\* exactly if its query parameter secret equals the per-launch secret, and
\* is answered 403 otherwise; a request that is not a WebSocket upgrade
\* reaches the next handler unchecked.
C31_UpgradeNeedsQuerySecret ==
    UpgradeServed =>
        IF UpgradeRecognised(http.r)
        THEN IF http.r.secret /= <<>> /\ http.r.secret[1] = http.secret
             THEN Passed
             ELSE Refused
        ELSE Passed

\* an upgrade spelled "WebSocket" / "k, Upgrade" that carried the secret in
\* the X-Irgo-Secret header but not in the query was answered 403
C31_Witness ==
    /\ UpgradeServed
    /\ http.secret = K1
    /\ http.r.Upgrade = <<S_WebSocket>>
    /\ http.r.Connection = <<S_keepUpgrade>>
    /\ http.r.XIrgoSecret = <<K1>>
    /\ http.r.secret = <<>>
    /\ Refused

\* the request just served by the stack has a method other than GET, HEAD
\* and OPTIONS
NonSafeServed == StackServed /\ http.r.Method \notin {"GET", "HEAD", "OPTIONS"}

\* the request's path is under the stack's excluded prefix, or its
\* X-Irgo-Secret header is the secret
StaticOrSecret(r) == HasPrefix(r.Path, P_static) \/ CarriesSecret(r)

StreamEnqueues(t) ==
    /\ pc[t].op = "Channel.SendStream"
    /\ pc[t].step = "Called.select"
    /\ obs'[pc[t].s].okLog = Append(obs[pc[t].s].okLog, pc[t].env)

StreamReturns(t, v) ==
    /\ pc[t].op = "Channel.SendStream"
    /\ pc'[t].op = "idle"
    /\ ret'[t].val = v

OnMessageFails(t) ==
    /\ pc[t].op = "Hub.HandleMessage"
    /\ pc[t].step = "HandleMessage.OnMessage"
    /\ pc'[t] /= pc[t]
    /\ obs'[pc[t].s].answer = "ErrHandler"

\* C34: when OnMessage answers an error, Hub.HandleMessage returns that very
\* error, and no step of the call closes the session, removes it from
\* Hub.sessions or changes its send queue.
C34_HandlerErrorLeavesSession ==
    [][\A t \in DOMAIN pc :
          /\ OnMessageFails(t) => HubHandleMessageReturns(t, "ErrHandler")
          /\ (HubHandleMessageReturns(t, "ErrHandler") /\ pc[t].op = "Hub.HandleMessage")
                => OnMessageFails(t)
          /\ (pc[t].op = "Hub.HandleMessage" /\ pc'[t] /= pc[t])
                => /\ hub'.sessions = hub.sessions
                   /\ session'[pc[t].s].closed = session[pc[t].s].closed
                   /\ session'[pc[t].s].chanClosed = session[pc[t].s].chanClosed
                   /\ session'[pc[t].s].SendChan = session[pc[t].s].SendChan]_vars

\* HandleMessage has returned the handler's error on a session that is open,
\* registered and holds a queued envelope
C34_Witness ==
    \E t \in DOMAIN pc :
        /\ ret[t].op = "Hub.HandleMessage" /\ ret[t].val = "ErrHandler"
        /\ pc[t].op = "idle"
        /\ ~session[ret[t].s].closed
        /\ hub.sessions[ret[t].id] = ret[t].s
        /\ Len(session[ret[t].s].SendChan) > 0
        /\ obs[ret[t].s].answer = "ErrHandler"

(***************************************************************************)
(* URL matching properties.                                                *)
(***************************************************************************)
\* the matching the documentation describes for a URL without scheme and
\* host: equality, or a pattern ending in "/" that is a prefix of the URL
LiteralMatch(url, pattern) ==
    \/ url = pattern
    \/ /\ pattern /= <<>>
       /\ pattern[Len(pattern)] = "/"
       /\ Len(pattern) <= Len(url)
       /\ \A i \in 1..Len(pattern) : url[i] = pattern[i]

\* BroadcastToURL(pattern) delivers its envelope to the session in this step
DeliversTo(t, s) ==
    /\ pc[t].op = "Hub.BroadcastToURL"
    /\ pc[t].s = s
    /\ session'[s].SendChan = Append(session[s].SendChan, pc[t].env)

\* C35: a URL that begins with "/" matches a pattern only if it equals the
\* pattern or the pattern ends in "/" and is a prefix of the URL, also when
\* the URL carries a query string that contains "://".
C35_MatchIsExactOrPrefix ==
    [][\A t \in DOMAIN pc, s \in SessIdx :
          (DeliversTo(t, s) /\ session[s].URL[1] = "/")
              => LiteralMatch(session[s].URL, pc[t].url)]_vars

\* C36: on an unchanging set of registered patterns, two Connect calls with
\* the same URL, which matches no exact pattern and two or more prefix
\* patterns, give their sessions the same handler.
C36_SelectionIsDeterministic ==
    \A s1, s2 \in SessIdx :
        (/\ session[s1].alloc /\ session[s2].alloc
         /\ session[s1].URL = session[s2].URL
         /\ ~Registered(hub.handlers, session[s1].URL)
         /\ Cardinality(PrefixMatches(hub.handlers, session[s1].URL)) >= 2)
            => session[s1].Handler = session[s2].Handler

(***************************************************************************)
(* The failure path of ConnectWithID.                                      *)
(***************************************************************************)
\* goroutine t leaves the failure path of its ConnectWithID in this step
ConnectWithIDFails(t) ==
    /\ pc[t].op = "Hub.ConnectWithID"
    /\ pc[t].step = "Connect.remove"
    /\ pc'[t] /= pc[t]

\* C37: the failure path of a ConnectWithID removes from Hub.sessions only the
\* session that call inserted; a session another call registered under the
\* same id, accepted by OnConnect and still open, stays registered.
C37_FailureRemovesOwnSession ==
    [][\A t \in DOMAIN pc, s \in SessIdx :
          (/\ ConnectWithIDFails(t)
           /\ s /= pc[t].s
           /\ hub.sessions[pc[t].id] = s
           /\ obs[s].accepted
           /\ ~session[s].closed)
              => hub'.sessions[pc[t].id] = s]_vars

(***************************************************************************)
(* Inbound delivery properties.                                            *)
(***************************************************************************)
\* goroutine t leaves the select of deliverMessage or of readLoop
Delivers(t) ==
    /\ pc[t].step \in {"deliverMessage.select", "readLoop.select"}
    /\ pc'[t] /= pc[t]

\* C38: a delivery concurrent with Channel.Close never sends on the closed
\* incoming queue; a message that arrives when the buffer is full or the
\* channel is closed is dropped; the messages accepted are received in the
\* order they were accepted.
C38_DeliveryNeverSendsOnClosed ==
    [][/\ \A t \in DOMAIN pc :
             Delivers(t) =>
                /\ ~panicked'
                /\ Len(channel[pc[t].s].queue) >= channel[pc[t].s].bufferSize
                      => channel'[pc[t].s].queue = channel[pc[t].s].queue
       /\ \A t \in DOMAIN pc, s \in SessIdx :
             (pc[t].op = "idle" /\ pc'[t] /= pc[t] /\ channel[s].closed)
                => channel'[s].queue = channel[s].queue
       /\ \A s \in SessIdx :
             channel'[s].received /= channel[s].received
                => /\ channel'[s].received
                         = Append(channel[s].received, Head(channel[s].queue))
                   /\ \A i \in 1..Len(channel[s].queue) :
                         Head(channel[s].queue).n <= channel[s].queue[i].n]_vars

(***************************************************************************)
(* The session observers.                                                  *)
(***************************************************************************)
\* C39: when no operation is under way, every session for which
\* on_session_created was invoked and which is no longer in Hub.sessions has
\* had on_session_destroyed invoked exactly once, whether Disconnect,
\* Hub.Close or a ConnectWithID with the same id removed it; and
\* on_session_destroyed is never invoked for a session that is registered.
C39_CreatedSessionsDestroyedOnce ==
    /\ Quiescent =>
          \A s \in SessIdx :
              (obs[s].created > 0 /\ ~InRegistry(s)) => obs[s].destroyed = 1
    /\ \A s \in SessIdx :
          obs[s].destroyed > 0 => (~InRegistry(s) /\ obs[s].destroyed = 1)

(***************************************************************************)
(* The two Reply operations.                                               *)
(***************************************************************************)
\* goroutine t calls Session.Reply(r, html) or InProcessChannel.Reply(r, html)
\* on the open session s
ReplyCalled(t, s, r) ==
    /\ pc[t].op = "idle"
    /\ pc'[t].op \in {"Session.Reply", "Channel.Reply"}
    /\ pc'[t].s = s
    /\ pc'[t].rid = r

\* C40: InProcessChannel.Reply(r, html) and Session.Reply(r, html) have the
\* same effect on an open session: each leaves pending without an entry for
\* r, and each extends the send queue by the one reply envelope.
C40_ChannelReplyIsSessionReply ==
    [][\A t \in DOMAIN pc, s \in SessIdx :
          /\ \A r \in RequestIds :
                ReplyCalled(t, s, r) =>
                    session'[s].pending = clearPending(session[s].pending, r)
          /\ (/\ pc[t].op \in {"Session.Reply", "Channel.Reply"}
              /\ pc[t].s = s
              /\ session'[s].SendChan /= session[s].SendChan
              /\ Len(session'[s].SendChan) >= Len(session[s].SendChan))
                => /\ session'[s].SendChan = Append(session[s].SendChan, pc[t].env)
                   /\ \E x \in obs[s].replies : x.env = pc[t].env /\ x.rid = pc[t].rid]_vars
====
